---- MODULE Spec2Model ----
(***************************************************************************)
(* Real-time chat / presence core of remote-office-backend.                *)
(*                                                                         *)
(* State: the User collection's presence fields (chatStatus, socketIds),   *)
(* the Channel and Message collections, socket.io's per-socket room sets,  *)
(* the in-memory SocketRateLimiter and the position of every asynchronous  *)
(* handler between two awaits.  Every database operation is one atomic     *)
(* step; the code that runs between two awaits belongs to the step of the  *)
(* operation it waited for.                                                *)
(***************************************************************************)
EXTENDS Integers, Sequences, FiniteSets, TLC

\* ------------------------------------------------------------------ population
None == "none"

Users == {"u1", "u2", "u3", "u4", "u5"}

\* user.company, fixed for the lifetime of the model
Company(u) == IF u \in {"u3", "u5"} THEN "T2" ELSE "T1"

\* user.role as attached to the socket by the handshake and carried by the token
Role(u) ==
  CASE u = "u2" -> "member"
    [] u = "u4" -> "company_admin"
    [] u = "u5" -> "superadmin"
    [] OTHER -> "employee"

\* transport sessions; a session id is never reused
Conns == {"c1", "c2", "c3", "c4"}

\* authSocket.userId of a session
ConnUser(c) == IF c \in {"c1", "c2"} THEN "u1" ELSE IF c = "c3" THEN "u2" ELSE "u3"

CompanyRoom(t) == IF t = "T1" THEN "company:T1" ELSE "company:T2"

Statuses == {"online", "offline", "away", "busy"}

VARIABLES
  now,        \* Date.now(), milliseconds
  limits,     \* SocketRateLimiter.limits: key -> timestamps
  unswept,    \* the same map had cleanup() never run
  chatStatus, \* User.chatStatus
  socketIds,  \* User.socketIds
  open,       \* the transport of a session is open
  pc,         \* position of the connection handler of a session
  dpc,        \* position of the disconnect handler of a session
  sjob,       \* status_change handler of a session waiting for its update
  rooms,      \* socket.io adapter: rooms of a session
  channels,   \* Channel collection
  messages,   \* Message collection, in insertion order
  outbox,     \* events emitted by the last step
  jjob,       \* join_channel handler of a session waiting for its access check
  pullLeft,   \* history: socketIds right after the $pull of a session
  discCast,   \* history: the disconnect handler of a session broadcast offline
  joinOk,     \* history: channel rooms joined while the principal was a participant
  accessLog,  \* history: the last call of checkChannelAccess and its result
  mjob,       \* send_message handler of a session between two awaits
  hjob,       \* HTTP message request of a user between two awaits
  passed,     \* history: the times at which a send_message passed the limiter
  editLog,    \* history: the last lookup of editMessage and its outcome
  cjob,       \* createChannel request of a user between two awaits
  xjob,       \* typing or mark_as_read handler of a session waiting for its access check
  limLog,     \* history: the last call of checkLimit and its result
  readLog,    \* history: what the last read request returned
  delLog,     \* history: the last lookup of deleteMessage and its outcome
  pjob        \* HTTP sendMessage request of a user between two awaits

vars == <<now, limits, unswept, chatStatus, socketIds, open, pc, dpc, sjob, rooms,
          channels, messages, outbox, jjob, pullLeft, discCast, joinOk,
          accessLog, mjob, hjob, passed, editLog, cjob, xjob, limLog, readLog,
          delLog, pjob>>

\* the clock and the limiter, the presence handlers, the join handlers, the stores
limVars == <<now, limits, unswept>>
presenceVars == <<chatStatus, socketIds, dpc, sjob, pullLeft, discCast>>
joinVars == <<jjob, accessLog>>
storeVars == <<channels, messages>>
chatVars == <<mjob, hjob, passed, editLog>>
moreVars == <<cjob, xjob, limLog, readLog, delLog, pjob>>

\* ------------------------------------------------------------------ fan-out
\* socket.to(room).emit: every open session in the room but the sender
ToRoomIncludingSender(rm, room, sender) ==
  {c \in Conns : open[c] /\ room \in rm[c]}

ToRoom(rm, room, sender) ==
  {c \in Conns : open[c] /\ room \in rm[c] /\ c # sender}

\* authSocket.emit(...) to the caller: dropped when its transport has closed
Emit(c, evs) == IF open[c] THEN evs ELSE {}

\* io.emit: every open session, whatever its rooms
IoEmitAll(rm, room) == {c \in Conns : open[c]}

\* io.to(room).emit: every open session in the room
IoToRoom(rm, room) == {c \in Conns : open[c] /\ room \in rm[c]}

\* an outbound event: its receiver, the session whose inbound event caused it,
\* its name, and the payload fields the handlers fill in (id is the message
\* id of a message event, 0 otherwise)
Event(to, from, ev, channelId, arg, tempId) ==
  [to |-> to, from |-> from, ev |-> ev, userId |-> ConnUser(from),
   channelId |-> channelId, arg |-> arg, tempId |-> tempId, id |-> 0]

\* a status broadcast to every open session but the sender, whatever its rooms
StatusEventsToAll(rm, c, status) ==
  {Event(d, c, "user_status_change", None, status, None)
     : d \in {x \in Conns : open[x] /\ x # c}}

StatusEvents(rm, c, status) ==
  {Event(d, c, "user_status_change", None, status, None)
     : d \in ToRoom(rm, CompanyRoom(Company(ConnUser(c))), c)}

\* an error event sent to every session of the principal
ErrorEventToPrincipal(c, msg) ==
  {Event(d, c, "error", None, msg, None) : d \in {x \in Conns : ConnUser(x) = ConnUser(c)}}

\* authSocket.emit('error', {message})
ErrorEvent(c, msg) == {Event(c, c, "error", None, msg, None)}

\* ------------------------------------------------------------------ rate limiter
Actions == {"message", "typing", "join", "create"}

LimitMessage == 60
LimitTyping == 30
LimitJoin == 20
LimitCreate == 5
WindowMs == 60000

LIMITS(action) ==
  CASE action = "message" -> LimitMessage
    [] action = "typing" -> LimitTyping
    [] action = "join" -> LimitJoin
    [] action = "create" -> LimitCreate

\* a limiter that prunes with a window of one hour
HourMs == 60 * 60 * 1000

WindowFilterHour(ts, t) == SelectSeq(ts, LAMBDA x : x > t - HourMs)

\* timestamps.filter(timestamp => timestamp > windowStart)
WindowFilter(ts, t) == SelectSeq(ts, LAMBDA x : x > t - WindowMs)

\* checkLimit admitting a request when the window already holds the limit
CheckLimitInclusive(lim, u, action, t) ==
  Len(WindowFilter(lim[<<u, action>>], t)) <= LIMITS(action)

\* the result of SocketRateLimiter.checkLimit(userId, action) at time t
CheckLimit(lim, u, action, t) ==
  Len(WindowFilter(lim[<<u, action>>], t)) < LIMITS(action)

\* a limiter that records the timestamp of a refused request as well
LimitsAfterRecordingAll(lim, u, action, t) ==
  [lim EXCEPT ![<<u, action>>] = Append(WindowFilter(@, t), t)]

\* SocketRateLimiter.limits after checkLimit(userId, action) at time t
LimitsAfter(lim, u, action, t) ==
  IF CheckLimit(lim, u, action, t)
    THEN [lim EXCEPT ![<<u, action>>] = Append(WindowFilter(@, t), t)]
    ELSE lim

\* const fiveMinutesAgo = now - 300000
SweepMs == 300000

\* a sweep that keeps only the timestamps after now
SweepFilterNow(ts, t) == SelectSeq(ts, LAMBDA x : x > t)

\* timestamps.filter(timestamp => timestamp > fiveMinutesAgo)
SweepFilter(ts, t) == SelectSeq(ts, LAMBDA x : x > t - SweepMs)

\* ------------------------------------------------------------------ channels
InitChannels ==
  [ch \in {"X", "Y", "Z"} |->
     IF ch = "X" THEN [companyId |-> "T1", participants |-> {"u1", "u2"},
                       isArchived |-> FALSE, allowedRoles |-> {},
                       type |-> "group", createdBy |-> "u1",
                       isPrivate |-> FALSE, lastMessage |-> 0]
     ELSE IF ch = "Y" THEN [companyId |-> "T1", participants |-> {"u1", "u2"},
                       isArchived |-> FALSE, allowedRoles |-> {"employee"},
                       type |-> "group", createdBy |-> "u2",
                       isPrivate |-> FALSE, lastMessage |-> 0]
     ELSE [companyId |-> "T2", participants |-> {"u3"},
                       isArchived |-> FALSE, allowedRoles |-> {},
                       type |-> "group", createdBy |-> "u3",
                       isPrivate |-> FALSE, lastMessage |-> 0]]

\* Channel.find({participants, companyId, isArchived: false}) of autoJoinUserChannels
AutoJoinChannels(chs, u) ==
  {ch \in DOMAIN chs : /\ u \in chs[ch].participants
                       /\ chs[ch].companyId = Company(u)
                       /\ ~chs[ch].isArchived}

\* checkChannelAccess that only looks the channel up by its id
AccessAnyChannel(chs, u, ch) == ch \in DOMAIN chs /\ ~chs[ch].isArchived

\* checkChannelAccess with the isArchived filter left out of its query
AccessIgnoringArchived(chs, u, ch) ==
  IF ch \in DOMAIN chs /\ u \in chs[ch].participants
       /\ chs[ch].companyId = Company(u)
    THEN IF chs[ch].allowedRoles # {}
           THEN Role(u) \in chs[ch].allowedRoles
           ELSE TRUE
    ELSE FALSE

\* checkChannelAccess with the participants filter left out of its query
AccessWithoutParticipants(chs, u, ch) ==
  IF ch \in DOMAIN chs /\ chs[ch].companyId = Company(u) /\ ~chs[ch].isArchived
    THEN IF chs[ch].allowedRoles # {}
           THEN Role(u) \in chs[ch].allowedRoles
           ELSE TRUE
    ELSE FALSE

\* Channel.findOne({_id, participants, companyId, isArchived: false}) of
\* checkChannelAccess, then the role allow-list
CheckChannelAccess(chs, u, ch) ==
  IF ch \in DOMAIN chs /\ u \in chs[ch].participants
       /\ chs[ch].companyId = Company(u) /\ ~chs[ch].isArchived
    THEN IF chs[ch].allowedRoles # {}
           THEN Role(u) \in chs[ch].allowedRoles
           ELSE TRUE
    ELSE FALSE

\* what a call of checkChannelAccess leaves in the history: dbOk is FALSE when
\* the query throws, and the function then returns false from its catch
AccessCall(chs, u, ch, dbOk) ==
  [userId |-> u, channelId |-> ch, dbOk |-> dbOk,
   docs |-> IF ch \in DOMAIN chs THEN {chs[ch]} ELSE {},
   result |-> dbOk /\ CheckChannelAccess(chs, u, ch)]

\* history: at this moment u is a participant of the non-archived channel ch of
\* u's own tenant
IsParticipant(chs, u, ch) ==
  /\ ch \in DOMAIN chs
  /\ u \in chs[ch].participants
  /\ chs[ch].companyId = Company(u)
  /\ ~chs[ch].isArchived

\* ------------------------------------------------------------------ messages
\* the payload of a send_message event; replyTo 0 and tempId "none" stand for
\* an absent field, type "none" for an absent type
NoData ==
  [channelId |-> None, content |-> None, type |-> None, replyTo |-> 0,
   tempId |-> None]

\* no send_message handler in flight
NoSend == [stage |-> "none", data |-> NoData, id |-> 0]

\* no createChannel request in flight
NoCreate == [stage |-> "none", type |-> None, participants |-> {}]

\* no typing or mark_as_read handler in flight
NoEvent == [ev |-> "none", channelId |-> None]

\* no HTTP message request in flight
NoRequest == [op |-> "none", id |-> 0, content |-> None, at |-> 0]

\* socketSendMessageSchema.safeParse(data).success: a well-formed channel id,
\* content of at least one character without markup the schema refuses
ValidSendPayload(data) ==
  data.channelId # "bad" /\ data.content \notin {"", "<script>"}

\* Message.findOne without the isDeleted filter
ReplyFoundIgnoringDeleted(msgs, id, ch, company) ==
  /\ id \in 1..Len(msgs)
  /\ msgs[id].channelId = ch
  /\ msgs[id].companyId = company

\* Message.findOne({_id: replyTo, channelId, companyId, isDeleted: false})
ReplyFound(msgs, id, ch, company) ==
  /\ id \in 1..Len(msgs)
  /\ msgs[id].channelId = ch
  /\ msgs[id].companyId = company
  /\ ~msgs[id].isDeleted

\* the replyTo validator of the Message schema, run by save()
ReplyToValidator(msgs, id, ch) ==
  id = 0 \/ (id \in 1..Len(msgs) /\ msgs[id].channelId = ch)

\* new Message({content, senderId, channelId, companyId, type, replyTo}) with
\* the schema defaults, as stored at time t; editedAt and deletedAt are -1
\* while unset
NewMessage(u, data, t) ==
  [content |-> data.content, senderId |-> u, channelId |-> data.channelId,
   companyId |-> Company(u),
   type |-> IF data.type = None THEN "text" ELSE data.type,
   replyTo |-> data.replyTo, isDeleted |-> FALSE, deletedAt |-> -1,
   deletedBy |-> None, isEdited |-> FALSE, editedAt |-> -1, createdAt |-> t]

\* messageData, built from the handler's in-memory document
MessageData(to, c, ev, data, id, tempId) ==
  [to |-> to, from |-> c, ev |-> ev, userId |-> ConnUser(c),
   channelId |-> data.channelId, arg |-> data.content, tempId |-> tempId,
   id |-> id]

\* io.to(channelId).emit('new_message', messageData)
NewMessageEvents(rm, c, data, id) ==
  {MessageData(d, c, "new_message", data, id, None)
     : d \in IoToRoom(rm, data.channelId)}

\* authSocket.emit('message_sent', {tempId: data.tempId, message})
MessageSent(c, data, id) ==
  {MessageData(c, c, "message_sent", data, id, data.tempId)}

\* 24 * 60 * 60 * 1000
DayMs == 24 * 60 * 60 * 1000

\* the age test of editMessage with the boundary on the other side
TooOldInclusive(createdAt, t) == createdAt <= t - DayMs

\* message.createdAt < twentyFourHoursAgo
TooOld(createdAt, t) == createdAt < t - DayMs

\* Message.findOne({_id, senderId, companyId, isDeleted: false, type: 'text'})
EditFound(msgs, u, id) ==
  /\ id \in 1..Len(msgs)
  /\ msgs[id].senderId = u
  /\ msgs[id].companyId = Company(u)
  /\ ~msgs[id].isDeleted
  /\ msgs[id].type = "text"

AdminRoles == {"company_admin", "superadmin"}

\* the query of deleteMessage: any sender for an admin, else the requester
DeleteFoundAnyCompany(msgs, u, id) ==
  /\ id \in 1..Len(msgs)
  /\ ~msgs[id].isDeleted
  /\ (Role(u) \notin AdminRoles => msgs[id].senderId = u)

DeleteFound(msgs, u, id) ==
  /\ id \in 1..Len(msgs)
  /\ msgs[id].companyId = Company(u)
  /\ ~msgs[id].isDeleted
  /\ (Role(u) \notin AdminRoles => msgs[id].senderId = u)

\* ------------------------------------------------------------------ initial state
Init ==
  /\ now = 0
  /\ limits = [k \in Users \X Actions |-> <<>>]
  /\ unswept = [k \in Users \X Actions |-> <<>>]
  /\ chatStatus = [u \in Users |-> "offline"]
  /\ socketIds = [u \in Users |-> {}]
  /\ open = [c \in Conns |-> FALSE]
  /\ pc = [c \in Conns |-> "idle"]
  /\ dpc = [c \in Conns |-> "none"]
  /\ sjob = [c \in Conns |-> None]
  /\ rooms = [c \in Conns |-> {}]
  /\ channels = InitChannels
  /\ messages = <<>>
  /\ outbox = {}
  /\ jjob = [c \in Conns |-> None]
  /\ pullLeft = [c \in Conns |-> {}]
  /\ discCast = [c \in Conns |-> FALSE]
  /\ joinOk = [c \in Conns |-> {}]
  /\ accessLog = {}
  /\ mjob = [c \in Conns |-> NoSend]
  /\ hjob = [u \in Users |-> NoRequest]
  /\ passed = [u \in Users |-> <<>>]
  /\ editLog = {}
  /\ cjob = [u \in Users |-> NoCreate]
  /\ xjob = [c \in Conns |-> NoEvent]
  /\ limLog = {}
  /\ readLog = {}
  /\ delLog = {}
  /\ pjob = [u \in Users |-> NoSend]

\* ------------------------------------------------------------------ connection
\* socketAuthMiddleware accepted the session; the connection handler starts and
\* issues its first update
Handshake(c) ==
  /\ pc[c] = "idle"
  /\ pc' = [pc EXCEPT ![c] = "setup_update"]
  /\ open' = [open EXCEPT ![c] = TRUE]
  /\ outbox' = {}
  /\ UNCHANGED <<moreVars, chatVars, limVars, presenceVars, joinVars, storeVars, rooms, joinOk>>

\* User.findByIdAndUpdate({chatStatus: 'online', $addToSet: socketIds});
\* then authSocket.join(company room) and the query of autoJoinUserChannels
SetupUpdate(c) ==
  /\ pc[c] = "setup_update"
  /\ chatStatus' = [chatStatus EXCEPT ![ConnUser(c)] = "online"]
  /\ socketIds' = [socketIds EXCEPT ![ConnUser(c)] = @ \cup {c}]
  /\ rooms' = [rooms EXCEPT ![c] = @ \cup {CompanyRoom(Company(ConnUser(c)))}]
  /\ pc' = [pc EXCEPT ![c] = "setup_join"]
  /\ outbox' = {}
  /\ UNCHANGED <<moreVars, chatVars, limVars, joinVars, storeVars, open, dpc, sjob, pullLeft,
                 discCast, joinOk>>

\* autoJoinUserChannels' query returns: join every channel found, broadcast
\* online, and only now register the event handlers of the session
SetupAutoJoin(c) ==
  /\ pc[c] = "setup_join"
  /\ LET found == AutoJoinChannels(channels, ConnUser(c))
         rm == [rooms EXCEPT ![c] = @ \cup found]
     IN /\ rooms' = rm
        /\ joinOk' = [joinOk EXCEPT ![c] = @ \cup
                        {ch \in found : IsParticipant(channels, ConnUser(c), ch)}]
        /\ outbox' = StatusEvents(rm, c, "online")
  /\ pc' = [pc EXCEPT ![c] = "connected"]
  /\ UNCHANGED <<moreVars, chatVars, limVars, presenceVars, joinVars, storeVars, open>>

\* the transport closes: socket.io empties the session's rooms and emits
\* 'disconnect' to the listeners registered at that moment
TransportClose(c) ==
  /\ open[c]
  /\ open' = [open EXCEPT ![c] = FALSE]
  /\ rooms' = [rooms EXCEPT ![c] = {}]
  /\ joinOk' = [joinOk EXCEPT ![c] = {}]
  /\ dpc' = [dpc EXCEPT ![c] = IF pc[c] = "connected" THEN "pull" ELSE @]
  /\ outbox' = {}
  /\ UNCHANGED <<moreVars, chatVars, limVars, joinVars, storeVars, chatStatus, socketIds, pc, sjob,
                 pullLeft, discCast>>

\* ------------------------------------------------------------------ handshake failures
\* what a client can present at the handshake: no token, a token jwt.verify
\* refuses, an expired token, a token without id, a token of no user, of an
\* inactive user, of a user without company, or a token whose user lookup throws
Credentials == {"missing", "malformed", "expired", "no_id", "no_user",
                "inactive", "no_company", "db_error"}

\* TokenExpiredError extends JsonWebTokenError, and the catch tests
\* JsonWebTokenError first
HandshakeError(cred) ==
  CASE cred = "missing" -> "Authentication token required"
    [] cred = "malformed" -> "Invalid authentication token"
    [] cred = "expired" -> "Invalid authentication token"
    [] cred = "no_id" -> "Invalid token payload"
    [] cred = "no_user" -> "User not found"
    [] cred = "inactive" -> "User account is inactive"
    [] cred = "no_company" -> "User must belong to a company"
    [] cred = "db_error" -> "Authentication failed"

\* socketAuthMiddleware calls next(new Error(...)): the client gets
\* connect_error and the connection callback never runs; the event records
\* what the client had presented
HandshakeReject(c, cred) ==
  /\ pc[c] = "idle"
  /\ pc' = [pc EXCEPT ![c] = "rejected"]
  /\ outbox' = {Event(c, c, "connect_error", None, HandshakeError(cred), None)
                  @@ [cause |-> cred]}
  /\ UNCHANGED <<moreVars, chatVars, limVars, presenceVars, joinVars, storeVars,
                 open, rooms, joinOk>>

\* the first update of the connection callback throws: the catch emits the
\* error, and the event handlers are registered after the try block all the same
SetupUpdateFails(c) ==
  /\ pc[c] = "setup_update"
  /\ pc' = [pc EXCEPT ![c] = "connected"]
  /\ outbox' = Emit(c, ErrorEvent(c, "Connection setup failed"))
  /\ UNCHANGED <<moreVars, chatVars, limVars, presenceVars, joinVars, storeVars,
                 open, rooms, joinOk>>

\* the query of autoJoinUserChannels throws: the function swallows the error,
\* the callback broadcasts online and registers the event handlers
SetupAutoJoinFails(c) ==
  /\ pc[c] = "setup_join"
  /\ pc' = [pc EXCEPT ![c] = "connected"]
  /\ outbox' = StatusEvents(rooms, c, "online")
  /\ UNCHANGED <<moreVars, chatVars, limVars, presenceVars, joinVars, storeVars,
                 open, rooms, joinOk>>

\* ------------------------------------------------------------------ status_change
\* status_change arrives: validate, then issue the update
StatusChange(c, status) ==
  /\ open[c] /\ pc[c] = "connected" /\ sjob[c] = None
  /\ IF status \in {"online", "away", "busy"}
       THEN /\ sjob' = [sjob EXCEPT ![c] = status]
            /\ outbox' = {}
       ELSE /\ sjob' = sjob
            /\ outbox' = ErrorEvent(c, "Invalid status")
  /\ UNCHANGED <<moreVars, chatVars, limVars, joinVars, storeVars, chatStatus, socketIds, open, pc,
                 dpc, rooms, pullLeft, discCast, joinOk>>

\* User.findByIdAndUpdate({chatStatus: status}) and the broadcast after it
StatusUpdate(c) ==
  /\ sjob[c] # None
  /\ chatStatus' = [chatStatus EXCEPT ![ConnUser(c)] = sjob[c]]
  /\ outbox' = StatusEvents(rooms, c, sjob[c])
  /\ sjob' = [sjob EXCEPT ![c] = None]
  /\ UNCHANGED <<moreVars, chatVars, limVars, joinVars, storeVars, socketIds, open, pc, dpc, rooms,
                 pullLeft, discCast, joinOk>>

\* User.findByIdAndUpdate of status_change throws: the catch block reports it
StatusUpdateFails(c) ==
  /\ sjob[c] # None
  /\ outbox' = Emit(c, ErrorEvent(c, "Failed to update status"))
  /\ sjob' = [sjob EXCEPT ![c] = None]
  /\ UNCHANGED <<moreVars, chatVars, limVars, joinVars, storeVars, chatStatus, socketIds,
                 open, pc, dpc, rooms, pullLeft, discCast, joinOk>>

\* ------------------------------------------------------------------ disconnect
\* User.findByIdAndUpdate({$pull: socketIds})
DisconnectPull(c) ==
  /\ dpc[c] = "pull"
  /\ socketIds' = [socketIds EXCEPT ![ConnUser(c)] = @ \ {c}]
  /\ pullLeft' = [pullLeft EXCEPT ![c] = socketIds[ConnUser(c)] \ {c}]
  /\ dpc' = [dpc EXCEPT ![c] = "read"]
  /\ outbox' = {}
  /\ UNCHANGED <<moreVars, chatVars, limVars, joinVars, storeVars, chatStatus, open, pc, sjob, rooms,
                 discCast, joinOk>>

\* User.findById(...).select('socketIds') and the test on its length
DisconnectRead(c) ==
  /\ dpc[c] = "read"
  /\ dpc' = [dpc EXCEPT ![c] =
               IF socketIds[ConnUser(c)] = {} THEN "offline" ELSE "done"]
  /\ outbox' = {}
  /\ UNCHANGED <<moreVars, chatVars, limVars, joinVars, storeVars, chatStatus, socketIds, open, pc,
                 sjob, rooms, pullLeft, discCast, joinOk>>

\* User.findByIdAndUpdate({chatStatus: 'offline'}) and the offline broadcast
DisconnectOffline(c) ==
  /\ dpc[c] = "offline"
  /\ chatStatus' = [chatStatus EXCEPT ![ConnUser(c)] = "offline"]
  /\ outbox' = StatusEvents(rooms, c, "offline")
  /\ discCast' = [discCast EXCEPT ![c] = TRUE]
  /\ dpc' = [dpc EXCEPT ![c] = "done"]
  /\ UNCHANGED <<moreVars, chatVars, limVars, joinVars, storeVars, socketIds, open, pc, sjob, rooms,
                 pullLeft, joinOk>>

\* ------------------------------------------------------------------ join_channel
\* what a client can put in the channelId of a payload: a channel, a
\* well-formed id of no channel ("N"), or a payload the schema refuses ("bad")
Payloads == {"X", "Y", "Z", "N", "bad"}

\* socketJoinChannelSchema.safeParse(data).success
ValidChannelPayload(data) == data # "bad"

\* join_channel arrives: checkLimit, validation, then the access query is issued
JoinChannel(c, data) ==
  /\ open[c] /\ pc[c] = "connected" /\ jjob[c] = None
  /\ limits' = LimitsAfter(limits, ConnUser(c), "join", now)
  /\ unswept' = LimitsAfter(unswept, ConnUser(c), "join", now)
  /\ IF ~CheckLimit(limits, ConnUser(c), "join", now)
       THEN /\ outbox' = ErrorEvent(c, "Too many join requests. Please slow down.")
            /\ jjob' = jjob
       ELSE IF ~ValidChannelPayload(data)
         THEN /\ outbox' = ErrorEvent(c, "Invalid channel join data")
              /\ jjob' = jjob
         ELSE /\ outbox' = {}
              /\ jjob' = [jjob EXCEPT ![c] = data]
  /\ UNCHANGED <<moreVars, chatVars, now, presenceVars, storeVars, open, pc, rooms, joinOk, accessLog>>

\* checkChannelAccess returns: join the room, notify it and answer the caller
JoinAccess(c, dbOk) ==
  /\ jjob[c] # None
  /\ LET u == ConnUser(c)
         ch == jjob[c]
         hasAccess == AccessCall(channels, u, ch, dbOk).result
         rm == [rooms EXCEPT ![c] = @ \cup {ch}]
     IN /\ accessLog' = accessLog
        /\ IF ~hasAccess
             THEN /\ outbox' = Emit(c, ErrorEvent(c, "Access denied to channel"))
                  /\ UNCHANGED <<rooms, joinOk>>
             ELSE /\ rooms' = rm
                  /\ joinOk' = [joinOk EXCEPT ![c] =
                                  IF IsParticipant(channels, u, ch)
                                    THEN @ \cup {ch} ELSE @]
                  /\ outbox' =
                       {Event(d, c, "user_joined_channel", ch, None, None)
                          : d \in ToRoom(rm, ch, c)}
                       \cup Emit(c, {Event(c, c, "joined_channel", ch, None, None)})
  /\ jjob' = [jjob EXCEPT ![c] = None]
  /\ UNCHANGED <<moreVars, chatVars, limVars, presenceVars, storeVars, open, pc>>

\* ------------------------------------------------------------------ leave_channel
LeaveChannel(c, data) ==
  /\ open[c] /\ pc[c] = "connected"
  /\ IF ~ValidChannelPayload(data)
       THEN /\ outbox' = ErrorEvent(c, "Invalid channel leave data")
            /\ UNCHANGED <<rooms, joinOk>>
       ELSE LET rm == [rooms EXCEPT ![c] = @ \ {data}]
            IN /\ rooms' = rm
               /\ joinOk' = [joinOk EXCEPT ![c] = @ \ {data}]
               /\ outbox' =
                    {Event(d, c, "user_left_channel", data, None, None)
                       : d \in ToRoom(rm, data, c)}
                    \cup {Event(c, c, "left_channel", data, None, None)}
  /\ UNCHANGED <<moreVars, chatVars, limVars, presenceVars, joinVars, storeVars, open, pc>>

\* ------------------------------------------------------------------ HTTP membership
\* POST /channels/:channelId/join
HttpJoinChannel(u, ch) ==
  /\ ch \in DOMAIN channels
  /\ channels[ch].companyId = Company(u)
  /\ ~channels[ch].isArchived
  /\ channels[ch].type # "direct"
  /\ u \notin channels[ch].participants
  /\ channels[ch].allowedRoles # {} => Role(u) \in channels[ch].allowedRoles
  /\ ~channels[ch].isPrivate
  /\ channels' = [channels EXCEPT ![ch].participants = @ \cup {u}]
  /\ outbox' = {}
  /\ UNCHANGED <<moreVars, chatVars, limVars, presenceVars, joinVars, open, pc, rooms, joinOk,
                 messages>>

\* POST /channels/:channelId/leave
HttpLeaveChannel(u, ch) ==
  /\ ch \in DOMAIN channels
  /\ u \in channels[ch].participants
  /\ channels[ch].companyId = Company(u)
  /\ channels[ch].type # "direct"
  /\ ~(channels[ch].createdBy = u /\ Cardinality(channels[ch].participants) > 1)
  /\ channels' = [channels EXCEPT
                    ![ch].participants = @ \ {u},
                    ![ch].isArchived =
                       IF channels[ch].participants \ {u} = {} THEN TRUE ELSE @]
  /\ outbox' = {}
  /\ UNCHANGED <<moreVars, chatVars, limVars, presenceVars, joinVars, open, pc, rooms, joinOk,
                 messages>>

\* ------------------------------------------------------------------ createChannel
\* the 24-digit hexadecimal strings a client can write in participantIds:
\* the text of a user's id as its token carries it, the same id in capital
\* digits, and the id of no user
Spellings == {"u1", "U1", "u2", "U2", "u3", "zz"}

\* the ObjectId a string is cast to, capital and small digits alike
UserOf(sp) ==
  CASE sp \in {"u1", "U1"} -> "u1"
    [] sp \in {"u2", "U2"} -> "u2"
    [] sp = "u3" -> "u3"
    [] OTHER -> None

\* User.find({_id: {$in: participantIds}, company, status: 'active'})
ParticipantsFound(u, participantIds) ==
  {UserOf(sp) : sp \in participantIds} \cap {v \in Users : Company(v) = Company(u)}

\* Array.from(new Set([user.id, ...participantIds])): distinct strings
UniqueParticipants(u, participantIds) == {u} \cup participantIds

\* Channel.findOne({type: 'direct', companyId, participants: {$all: [user.id,
\* participantIds[0]], $size: 2}}); every stored direct channel holds two
\* entries, by the pre-save hook
ExistingDirect(chs, u, participantIds) ==
  \E ch \in DOMAIN chs :
    /\ chs[ch].type = "direct"
    /\ chs[ch].companyId = Company(u)
    /\ ({u} \cup {UserOf(sp) : sp \in participantIds}) \subseteq chs[ch].participants

\* channelSchema.pre('save'): a direct channel has exactly 2 array entries
PreSaveOk(type, entries) == type = "direct" => Cardinality(entries) = 2

\* the id of the next stored channel
NewChannelId(chs) == ToString(Cardinality(DOMAIN chs) + 1)

\* POST /channels, validated by createChannelSchema: the participants query
\* returns; the role rule; then the lookup of an existing direct channel or
\* the save is issued
CreateChannel(u, type, participantIds) ==
  /\ cjob[u].stage = "none"
  /\ participantIds # {}
  /\ type = "direct" => Cardinality(participantIds) = 1
  /\ cjob' = IF Cardinality(ParticipantsFound(u, participantIds))
                  # Cardinality(participantIds)
               THEN cjob
               ELSE IF type = "group" /\ Role(u) = "member"
                 THEN cjob
                 ELSE [cjob EXCEPT ![u] =
                         [stage |-> IF type = "direct" THEN "existing" ELSE "save",
                          type |-> type, participants |-> participantIds]]
  /\ outbox' = {}
  /\ UNCHANGED <<pjob, xjob, limLog, readLog, delLog, chatVars, limVars, presenceVars,
                 joinVars, storeVars, open, pc, rooms, joinOk>>

\* the lookup of an existing direct channel returns
CreateExisting(u) ==
  /\ cjob[u].stage = "existing"
  /\ cjob' = IF ExistingDirect(channels, u, cjob[u].participants)
               THEN [cjob EXCEPT ![u] = NoCreate]
               ELSE [cjob EXCEPT ![u].stage = "save"]
  /\ outbox' = {}
  /\ UNCHANGED <<pjob, xjob, limLog, readLog, delLog, chatVars, limVars, presenceVars,
                 joinVars, storeVars, open, pc, rooms, joinOk>>

\* channel.save(): the pre-save hook, then the insert
CreateSave(u, dbOk) ==
  /\ cjob[u].stage = "save"
  /\ channels' =
       IF dbOk /\ PreSaveOk(cjob[u].type, UniqueParticipants(u, cjob[u].participants))
         THEN channels @@
                (NewChannelId(channels) :>
                   [companyId |-> Company(u),
                    participants |->
                      {UserOf(sp) : sp \in UniqueParticipants(u, cjob[u].participants)},
                    isArchived |-> FALSE, allowedRoles |-> {},
                    type |-> cjob[u].type, createdBy |-> u,
                    isPrivate |-> FALSE, lastMessage |-> 0])
         ELSE channels
  /\ cjob' = [cjob EXCEPT ![u] = NoCreate]
  /\ outbox' = {}
  /\ UNCHANGED <<pjob, xjob, limLog, readLog, delLog, chatVars, limVars, presenceVars,
                 joinVars, messages, open, pc, rooms, joinOk>>

\* ------------------------------------------------------------------ send_message
\* send_message arrives: checkLimit, validation, then the access query is issued
SendMessage(c, data) ==
  /\ open[c] /\ pc[c] = "connected" /\ mjob[c].stage = "none"
  /\ limits' = LimitsAfter(limits, ConnUser(c), "message", now)
  /\ unswept' = LimitsAfter(unswept, ConnUser(c), "message", now)
  /\ passed' = IF CheckLimit(limits, ConnUser(c), "message", now)
                 THEN [passed EXCEPT ![ConnUser(c)] = Append(@, now)]
                 ELSE passed
  /\ IF ~CheckLimit(limits, ConnUser(c), "message", now)
       THEN /\ outbox' = ErrorEvent(c, "Too many messages. Please slow down.")
            /\ mjob' = mjob
       ELSE IF ~ValidSendPayload(data)
         THEN /\ outbox' = ErrorEvent(c, "Invalid message data")
              /\ mjob' = mjob
         ELSE /\ outbox' = {}
              /\ mjob' = [mjob EXCEPT ![c] =
                            [stage |-> "access", data |-> data, id |-> 0]]
  /\ UNCHANGED <<moreVars, now, presenceVars, joinVars, storeVars, open, pc, rooms,
                 joinOk, hjob, editLog>>

\* checkChannelAccess returns: refuse, or issue the reply lookup or the save
SendAccess(c, dbOk) ==
  /\ mjob[c].stage = "access"
  /\ IF ~AccessCall(channels, ConnUser(c), mjob[c].data.channelId, dbOk).result
       THEN /\ outbox' = Emit(c, ErrorEvent(c, "Access denied to channel"))
            /\ mjob' = [mjob EXCEPT ![c] = NoSend]
       ELSE /\ outbox' = {}
            /\ mjob' = [mjob EXCEPT ![c].stage =
                          IF mjob[c].data.replyTo # 0 THEN "reply" ELSE "save"]
  /\ UNCHANGED <<moreVars, limVars, presenceVars, joinVars, storeVars, open, pc, rooms,
                 joinOk, hjob, passed, editLog>>

\* the lookup of the replyTo message returns
SendReply(c, dbOk) ==
  /\ mjob[c].stage = "reply"
  /\ IF ~dbOk
       THEN /\ outbox' = Emit(c, ErrorEvent(c, "Failed to send message"))
            /\ mjob' = [mjob EXCEPT ![c] = NoSend]
       ELSE IF ~ReplyFound(messages, mjob[c].data.replyTo,
                           mjob[c].data.channelId, Company(ConnUser(c)))
         THEN /\ outbox' = Emit(c, ErrorEvent(c, "Reply message not found"))
              /\ mjob' = [mjob EXCEPT ![c] = NoSend]
         ELSE /\ outbox' = {}
              /\ mjob' = [mjob EXCEPT ![c].stage = "save"]
  /\ UNCHANGED <<moreVars, limVars, presenceVars, joinVars, storeVars, open, pc, rooms,
                 joinOk, hjob, passed, editLog>>

\* message.save(): schema validation, then the insert
SendSave(c, dbOk) ==
  /\ mjob[c].stage = "save"
  /\ IF ~dbOk \/ ~ReplyToValidator(messages, mjob[c].data.replyTo,
                                   mjob[c].data.channelId)
       THEN /\ outbox' = Emit(c, ErrorEvent(c, "Failed to send message"))
            /\ mjob' = [mjob EXCEPT ![c] = NoSend]
            /\ messages' = messages
       ELSE /\ outbox' = {}
            /\ messages' = Append(messages, NewMessage(ConnUser(c), mjob[c].data, now))
            /\ mjob' = [mjob EXCEPT ![c].stage = "touch",
                                    ![c].id = Len(messages) + 1]
  /\ UNCHANGED <<moreVars, limVars, presenceVars, joinVars, channels, open, pc, rooms,
                 joinOk, hjob, passed, editLog>>

\* Channel.findByIdAndUpdate(channelId, {lastMessage, lastActivity})
SendTouch(c, dbOk) ==
  /\ mjob[c].stage = "touch"
  /\ IF ~dbOk
       THEN /\ outbox' = Emit(c, ErrorEvent(c, "Failed to send message"))
            /\ mjob' = [mjob EXCEPT ![c] = NoSend]
            /\ channels' = channels
       ELSE /\ outbox' = {}
            /\ channels' = [channels EXCEPT
                              ![mjob[c].data.channelId].lastMessage = mjob[c].id]
            /\ mjob' = [mjob EXCEPT ![c].stage = "populate"]
  /\ UNCHANGED <<moreVars, limVars, presenceVars, joinVars, messages, open, pc, rooms,
                 joinOk, hjob, passed, editLog>>

\* message.populate(senderId) returns: new_message to the room, message_sent
\* to the caller
SendPopulate(c, dbOk) ==
  /\ mjob[c].stage = "populate"
  /\ IF ~dbOk
       THEN outbox' = Emit(c, ErrorEvent(c, "Failed to send message"))
       ELSE outbox' = NewMessageEvents(rooms, c, mjob[c].data, mjob[c].id)
                        \cup Emit(c, MessageSent(c, mjob[c].data, mjob[c].id))
  /\ mjob' = [mjob EXCEPT ![c] = NoSend]
  /\ UNCHANGED <<moreVars, limVars, presenceVars, joinVars, storeVars, open, pc, rooms,
                 joinOk, hjob, passed, editLog>>

\* ------------------------------------------------------------------ HTTP messages
\* PUT message: the lookup returns, the age test runs, the save is issued
EditMessage(u, id, content) ==
  /\ hjob[u].op = "none"
  /\ LET accepted == IF EditFound(messages, u, id)
                       THEN ~TooOld(messages[id].createdAt, now)
                       ELSE FALSE
     IN /\ editLog' = {[userId |-> u, id |-> id, at |-> now,
                        docs |-> IF id \in 1..Len(messages)
                                   THEN {messages[id]} ELSE {},
                        accepted |-> accepted]}
        /\ hjob' = IF accepted
                     THEN [hjob EXCEPT ![u] =
                             [op |-> "edit", id |-> id, content |-> content,
                              at |-> now]]
                     ELSE hjob
  /\ outbox' = {}
  /\ UNCHANGED <<moreVars, limVars, presenceVars, joinVars, storeVars, open, pc, rooms,
                 joinOk, mjob, passed>>

\* message.save() of editMessage: content, isEdited and editedAt are written
EditSave(u, dbOk) ==
  /\ hjob[u].op = "edit"
  /\ messages' = IF dbOk
                   THEN [messages EXCEPT ![hjob[u].id].content = hjob[u].content,
                                         ![hjob[u].id].isEdited = TRUE,
                                         ![hjob[u].id].editedAt = hjob[u].at]
                   ELSE messages
  /\ hjob' = [hjob EXCEPT ![u] = NoRequest]
  /\ outbox' = {}
  /\ UNCHANGED <<moreVars, limVars, presenceVars, joinVars, channels, open, pc, rooms,
                 joinOk, mjob, passed, editLog>>

\* DELETE message: the lookup returns and the save of the soft delete is issued
DeleteMessage(u, id) ==
  /\ hjob[u].op = "none"
  /\ hjob' = IF DeleteFound(messages, u, id)
               THEN [hjob EXCEPT ![u] =
                       [op |-> "delete", id |-> id, content |-> None, at |-> now]]
               ELSE hjob
  /\ delLog' = {[userId |-> u, id |-> id,
                  docs |-> IF id \in 1..Len(messages) THEN {messages[id]} ELSE {},
                  accepted |-> DeleteFound(messages, u, id)]}
  /\ outbox' = {}
  /\ UNCHANGED <<pjob, cjob, xjob, limLog, readLog, limVars, presenceVars, joinVars, storeVars, open, pc, rooms,
                 joinOk, mjob, passed, editLog>>

\* message.save() of deleteMessage: isDeleted, deletedAt and deletedBy are written
DeleteSave(u, dbOk) ==
  /\ hjob[u].op = "delete"
  /\ messages' = IF dbOk
                   THEN [messages EXCEPT ![hjob[u].id].isDeleted = TRUE,
                                         ![hjob[u].id].deletedAt = hjob[u].at,
                                         ![hjob[u].id].deletedBy = u]
                   ELSE messages
  /\ hjob' = [hjob EXCEPT ![u] = NoRequest]
  /\ outbox' = {}
  /\ UNCHANGED <<moreVars, limVars, presenceVars, joinVars, channels, open, pc, rooms,
                 joinOk, mjob, passed, editLog>>

\* ------------------------------------------------------------------ HTTP sendMessage
\* POST /channels/:channelId/messages, validated by sendMessageSchema: the
\* lookup of the channel is issued
HttpSendMessage(u, data) ==
  /\ pjob[u].stage = "none"
  /\ ValidSendPayload(data)
  /\ pjob' = [pjob EXCEPT ![u] = [stage |-> "access", data |-> data, id |-> 0]]
  /\ outbox' = {}
  /\ UNCHANGED <<cjob, xjob, limLog, readLog, delLog, chatVars, limVars,
                 presenceVars, joinVars, storeVars, open, pc, rooms, joinOk>>

\* Channel.findOne({_id, participants, companyId, isArchived: false}) returns:
\* 403, or the reply lookup or the save is issued
HttpSendAccess(u, dbOk) ==
  /\ pjob[u].stage = "access"
  /\ pjob' = IF dbOk /\ IsParticipant(channels, u, pjob[u].data.channelId)
               THEN [pjob EXCEPT ![u].stage =
                       IF pjob[u].data.replyTo # 0 THEN "reply" ELSE "save"]
               ELSE [pjob EXCEPT ![u] = NoSend]
  /\ outbox' = {}
  /\ UNCHANGED <<cjob, xjob, limLog, readLog, delLog, chatVars, limVars,
                 presenceVars, joinVars, storeVars, open, pc, rooms, joinOk>>

\* the lookup of the replyTo message returns: 400 or 500, or the save is issued
HttpSendReply(u, dbOk) ==
  /\ pjob[u].stage = "reply"
  /\ pjob' = IF dbOk /\ ReplyFound(messages, pjob[u].data.replyTo,
                                   pjob[u].data.channelId, Company(u))
               THEN [pjob EXCEPT ![u].stage = "save"]
               ELSE [pjob EXCEPT ![u] = NoSend]
  /\ outbox' = {}
  /\ UNCHANGED <<cjob, xjob, limLog, readLog, delLog, chatVars, limVars,
                 presenceVars, joinVars, storeVars, open, pc, rooms, joinOk>>

\* message.save(): schema validation, then the insert
HttpSendSave(u, dbOk) ==
  /\ pjob[u].stage = "save"
  /\ IF ~dbOk \/ ~ReplyToValidator(messages, pjob[u].data.replyTo,
                                   pjob[u].data.channelId)
       THEN /\ pjob' = [pjob EXCEPT ![u] = NoSend]
            /\ messages' = messages
       ELSE /\ messages' = Append(messages, NewMessage(u, pjob[u].data, now))
            /\ pjob' = [pjob EXCEPT ![u].stage = "touch",
                                    ![u].id = Len(messages) + 1]
  /\ outbox' = {}
  /\ UNCHANGED <<cjob, xjob, limLog, readLog, delLog, chatVars, limVars,
                 presenceVars, joinVars, channels, open, pc, rooms, joinOk>>

\* Channel.findByIdAndUpdate(channelId, {lastMessage, lastActivity}); the
\* populate and the 201 response follow and change nothing
HttpSendTouch(u, dbOk) ==
  /\ pjob[u].stage = "touch"
  /\ channels' = IF dbOk
                   THEN [channels EXCEPT
                           ![pjob[u].data.channelId].lastMessage = pjob[u].id]
                   ELSE channels
  /\ pjob' = [pjob EXCEPT ![u] = NoSend]
  /\ outbox' = {}
  /\ UNCHANGED <<cjob, xjob, limLog, readLog, delLog, chatVars, limVars,
                 presenceVars, joinVars, messages, open, pc, rooms, joinOk>>

\* ------------------------------------------------------------------ HTTP reads
Tombstone == "[This message has been deleted]"

\* the content field of a transformed message
ShownContent(m) == IF m.isDeleted THEN Tombstone ELSE m.content

\* Message.find({channelId, companyId, isDeleted: false}) of getMessages,
\* transformed; the page holds every message of the model
ListedMessages(msgs, u, ch) ==
  {[id |-> id, content |-> ShownContent(msgs[id])] :
     id \in {i \in 1..Len(msgs) : /\ msgs[i].channelId = ch
                                  /\ msgs[i].companyId = Company(u)
                                  /\ ~msgs[i].isDeleted}}

\* Channel.find({participants, companyId, isArchived: false}) of getChannels,
\* with lastMessage populated and transformed
ListedChannels(chs, msgs, u) ==
  {[id |-> ch,
    lastMessage |-> IF chs[ch].lastMessage \in 1..Len(msgs)
                      THEN {[id |-> chs[ch].lastMessage,
                             content |-> ShownContent(msgs[chs[ch].lastMessage])]}
                      ELSE {}] :
     ch \in {c \in DOMAIN chs : /\ u \in chs[c].participants
                                /\ chs[c].companyId = Company(u)
                                /\ ~chs[c].isArchived}}

\* GET /channels/:channelId/messages: the channel lookup returns; 403 or the
\* query for the messages is issued
GetMessages(u, ch) ==
  /\ hjob[u].op = "none"
  /\ IF /\ ch \in DOMAIN channels
        /\ u \in channels[ch].participants
        /\ channels[ch].companyId = Company(u)
        /\ ~channels[ch].isArchived
       THEN /\ hjob' = [hjob EXCEPT ![u] =
                          [op |-> "list", id |-> 0, content |-> ch, at |-> now]]
            /\ readLog' = readLog
       ELSE /\ hjob' = hjob
            /\ readLog' = {[op |-> "messages", userId |-> u, channelId |-> ch,
                            ok |-> FALSE, items |-> {}, previews |-> {}]}
  /\ outbox' = {}
  /\ UNCHANGED <<pjob, cjob, xjob, limLog, delLog, limVars, presenceVars, joinVars,
                 storeVars, open, pc, rooms, joinOk, mjob, passed, editLog>>

\* the query for the messages returns: the transformed page is the response
GetMessagesFind(u) ==
  /\ hjob[u].op = "list"
  /\ readLog' = {[op |-> "messages", userId |-> u, channelId |-> hjob[u].content,
                  ok |-> TRUE,
                  items |-> ListedMessages(messages, u, hjob[u].content),
                  previews |-> {}]}
  /\ hjob' = [hjob EXCEPT ![u] = NoRequest]
  /\ outbox' = {}
  /\ UNCHANGED <<pjob, cjob, xjob, limLog, delLog, limVars, presenceVars, joinVars,
                 storeVars, open, pc, rooms, joinOk, mjob, passed, editLog>>

\* GET /channels: the channels of the user with their last-message previews
GetChannels(u) ==
  /\ readLog' = {[op |-> "channels", userId |-> u, channelId |-> None,
                  ok |-> TRUE, items |-> {},
                  previews |-> ListedChannels(channels, messages, u)]}
  /\ outbox' = {}
  /\ UNCHANGED <<pjob, cjob, xjob, limLog, delLog, limVars, presenceVars, joinVars,
                 storeVars, chatVars, open, pc, rooms, joinOk>>

\* ------------------------------------------------------------------ limiter calls
\* SocketRateLimiter.checkLimit(socket.userId, action), called for session c
LimiterCall(c, action) ==
  /\ limLog' = {[userId |-> ConnUser(c), action |-> action, at |-> now,
                 before |-> limits[<<ConnUser(c), action>>],
                 result |-> CheckLimit(limits, ConnUser(c), action, now)]}
  /\ limits' = LimitsAfter(limits, ConnUser(c), action, now)
  /\ unswept' = LimitsAfter(unswept, ConnUser(c), action, now)
  /\ outbox' = {}
  /\ UNCHANGED <<pjob, cjob, xjob, readLog, delLog, now, presenceVars, joinVars,
                 storeVars, chatVars, open, pc, rooms, joinOk>>

\* SocketRateLimiter.cleanup(), run by setInterval: every key keeps its
\* timestamps of the last 5 minutes; a key left with none is deleted, and a
\* deleted key reads as the empty list in checkLimit
Cleanup ==
  /\ limits' = [k \in DOMAIN limits |-> SweepFilter(limits[k], now)]
  /\ outbox' = {}
  /\ UNCHANGED <<moreVars, now, unswept, presenceVars, joinVars, storeVars, chatVars,
                 open, pc, rooms, joinOk>>

\* ------------------------------------------------------------------ typing, mark_as_read
\* the event a typing or read signal is broadcast as
SignalOut(ev) ==
  CASE ev = "typing_start" -> "user_typing"
    [] ev = "typing_stop" -> "user_stop_typing"
    [] ev = "mark_as_read" -> "messages_read"

\* typing_start arrives: checkLimit, validation, then the access query is
\* issued; every failure returns without an event
TypingStart(c, data) ==
  /\ open[c] /\ pc[c] = "connected" /\ xjob[c].ev = "none"
  /\ limits' = LimitsAfter(limits, ConnUser(c), "typing", now)
  /\ unswept' = LimitsAfter(unswept, ConnUser(c), "typing", now)
  /\ xjob' = IF CheckLimit(limits, ConnUser(c), "typing", now)
                  /\ ValidChannelPayload(data)
               THEN [xjob EXCEPT ![c] = [ev |-> "typing_start", channelId |-> data]]
               ELSE xjob
  /\ limLog' = {[userId |-> ConnUser(c), action |-> "typing", at |-> now,
                 before |-> limits[<<ConnUser(c), "typing">>],
                 result |-> CheckLimit(limits, ConnUser(c), "typing", now)]}
  /\ outbox' = {}
  /\ UNCHANGED <<pjob, cjob, readLog, delLog, chatVars, now, presenceVars,
                 joinVars, storeVars, open, pc, rooms, joinOk>>

\* typing_stop arrives: validation, then the access query is issued
TypingStop(c, data) ==
  /\ open[c] /\ pc[c] = "connected" /\ xjob[c].ev = "none"
  /\ xjob' = IF ValidChannelPayload(data)
               THEN [xjob EXCEPT ![c] = [ev |-> "typing_stop", channelId |-> data]]
               ELSE xjob
  /\ outbox' = {}
  /\ UNCHANGED <<pjob, cjob, limLog, readLog, delLog, chatVars, limVars, presenceVars,
                 joinVars, storeVars, open, pc, rooms, joinOk>>

\* mark_as_read arrives: validation, then the access query is issued
MarkAsRead(c, data) ==
  /\ open[c] /\ pc[c] = "connected" /\ xjob[c].ev = "none"
  /\ xjob' = IF ValidChannelPayload(data)
               THEN [xjob EXCEPT ![c] = [ev |-> "mark_as_read", channelId |-> data]]
               ELSE xjob
  /\ outbox' = {}
  /\ UNCHANGED <<pjob, cjob, limLog, readLog, delLog, chatVars, limVars, presenceVars,
                 joinVars, storeVars, open, pc, rooms, joinOk>>

\* checkChannelAccess of typing_start, typing_stop or mark_as_read returns:
\* the signal goes to the other sessions of the channel room, or nothing
SignalAccess(c, dbOk) ==
  /\ xjob[c].ev # "none"
  /\ outbox' =
       IF AccessCall(channels, ConnUser(c), xjob[c].channelId, dbOk).result
         THEN {Event(d, c, SignalOut(xjob[c].ev), xjob[c].channelId, None, None)
                 : d \in ToRoom(rooms, xjob[c].channelId, c)}
         ELSE {}
  /\ xjob' = [xjob EXCEPT ![c] = NoEvent]
  /\ UNCHANGED <<pjob, cjob, limLog, readLog, delLog, chatVars, limVars, presenceVars,
                 joinVars, storeVars, open, pc, rooms, joinOk>>

\* ------------------------------------------------------------------ clock
\* Date.now() reaches t
Tick(t) ==
  /\ t > now
  /\ now' = t
  /\ outbox' = {}
  /\ UNCHANGED <<moreVars, limits, unswept, presenceVars, joinVars, storeVars, chatVars,
                 open, pc, rooms, joinOk>>

\* ------------------------------------------------------------------ presence
PresenceConns == {"c1", "c2", "c3"}

NextPresence ==
  \E c \in PresenceConns :
    \/ Handshake(c)
    \/ SetupUpdate(c)
    \/ SetupAutoJoin(c)
    \/ TransportClose(c)
    \/ \E s \in {"away", "offline"} : StatusChange(c, s)
    \/ StatusUpdate(c)
    \/ DisconnectPull(c)
    \/ DisconnectRead(c)
    \/ DisconnectOffline(c)

SpecPresence == Init /\ [][NextPresence]_vars

\* ------------------------------------------------------------------ rooms
\* the sessions of the rooms specification: c1 sends events, c3 listens
RoomConns == {"c1", "c3"}

NextRooms ==
  \/ \E c \in RoomConns :
       \/ Handshake(c)
       \/ SetupUpdate(c)
       \/ SetupAutoJoin(c)
  \/ TransportClose("c1")
  \/ \E data \in Payloads : JoinChannel("c1", data)
  \/ \E dbOk \in BOOLEAN : JoinAccess("c1", dbOk)
  \/ \E data \in Payloads : LeaveChannel("c1", data)
  \/ \E u \in {"u1", "u2"} : HttpJoinChannel(u, "Y")
  \/ \E u \in {"u1", "u2"} : HttpLeaveChannel(u, "Y")

SpecRooms == Init /\ [][NextRooms]_vars

\* ------------------------------------------------------------------ access guard
\* the Channel documents the guard is asked about: every combination of
\* participants, tenant, archived flag and role allow-list
ChannelDocs ==
  [companyId : {"T1", "T2"}, participants : SUBSET Users,
   isArchived : BOOLEAN, allowedRoles : SUBSET {"employee", "member"},
   type : {"group"}, createdBy : {"u1"}, isPrivate : {FALSE},
   lastMessage : {0}]

InitAccess ==
  /\ now = 0
  /\ limits = [k \in Users \X Actions |-> <<>>]
  /\ unswept = [k \in Users \X Actions |-> <<>>]
  /\ chatStatus = [u \in Users |-> "offline"]
  /\ socketIds = [u \in Users |-> {}]
  /\ open = [c \in Conns |-> FALSE]
  /\ pc = [c \in Conns |-> "idle"]
  /\ dpc = [c \in Conns |-> "none"]
  /\ sjob = [c \in Conns |-> None]
  /\ rooms = [c \in Conns |-> {}]
  /\ \E doc \in ChannelDocs : channels = [ch \in {"X"} |-> doc]
  /\ messages = <<>>
  /\ outbox = {}
  /\ jjob = [c \in Conns |-> None]
  /\ pullLeft = [c \in Conns |-> {}]
  /\ discCast = [c \in Conns |-> FALSE]
  /\ joinOk = [c \in Conns |-> {}]
  /\ accessLog = {}
  /\ mjob = [c \in Conns |-> NoSend]
  /\ hjob = [u \in Users |-> NoRequest]
  /\ passed = [u \in Users |-> <<>>]
  /\ editLog = {}
  /\ cjob = [u \in Users |-> NoCreate]
  /\ xjob = [c \in Conns |-> NoEvent]
  /\ limLog = {}
  /\ readLog = {}
  /\ delLog = {}
  /\ pjob = [u \in Users |-> NoSend]

\* one call of checkChannelAccess(socket, channelId)
CheckAccess(u, ch, dbOk) ==
  /\ accessLog' = {AccessCall(channels, u, ch, dbOk)}
  /\ UNCHANGED <<moreVars, chatVars, limVars, presenceVars, storeVars, open, pc, rooms, outbox,
                 jjob, joinOk>>

NextAccess ==
  \E u \in Users, ch \in {"X", "N"}, dbOk \in BOOLEAN : CheckAccess(u, ch, dbOk)

SpecAccess == InitAccess /\ [][NextAccess]_vars

\* ------------------------------------------------------------------ chat
\* c1 and c2 of u1 and c3 of u2 have completed their connection setup
InitOnline ==
  /\ now = 0
  /\ limits = [k \in Users \X Actions |-> <<>>]
  /\ unswept = [k \in Users \X Actions |-> <<>>]
  /\ chatStatus = [u \in Users |-> IF u \in {"u1", "u2"} THEN "online" ELSE "offline"]
  /\ socketIds = [u \in Users |-> {c \in {"c1", "c2", "c3"} : ConnUser(c) = u}]
  /\ open = [c \in Conns |-> c # "c4"]
  /\ pc = [c \in Conns |-> IF c = "c4" THEN "idle" ELSE "connected"]
  /\ dpc = [c \in Conns |-> "none"]
  /\ sjob = [c \in Conns |-> None]
  /\ rooms = [c \in Conns |-> IF c = "c4" THEN {} ELSE {"company:T1", "X", "Y"}]
  /\ channels = InitChannels
  /\ messages = <<>>
  /\ outbox = {}
  /\ jjob = [c \in Conns |-> None]
  /\ pullLeft = [c \in Conns |-> {}]
  /\ discCast = [c \in Conns |-> FALSE]
  /\ joinOk = [c \in Conns |-> IF c = "c4" THEN {} ELSE {"X", "Y"}]
  /\ accessLog = {}
  /\ mjob = [c \in Conns |-> NoSend]
  /\ hjob = [u \in Users |-> NoRequest]
  /\ passed = [u \in Users |-> <<>>]
  /\ editLog = {}
  /\ cjob = [u \in Users |-> NoCreate]
  /\ xjob = [c \in Conns |-> NoEvent]
  /\ limLog = {}
  /\ readLog = {}
  /\ delLog = {}
  /\ pjob = [u \in Users |-> NoSend]

NoSendInFlight == \A c \in Conns : mjob[c].stage = "none"

\* send_message events that passed the limiter, over all principals
Sends == Len(passed["u1"]) + Len(passed["u2"]) + Len(passed["u3"])

\* ---- rate limit of send_message: u1 sends from both of its sessions
MaxRateSends == 61

RatePayload ==
  [channelId |-> "X", content |-> "hi", type |-> None, replyTo |-> 0,
   tempId |-> "t1"]

NextRate ==
  \/ \E c \in {"c1", "c2"} :
       /\ NoSendInFlight
       /\ Sends < MaxRateSends
       /\ SendMessage(c, RatePayload)
  \/ \E c \in {"c1", "c2"} : SendAccess(c, TRUE)
  \/ \E c \in {"c1", "c2"} : SendSave(c, TRUE)
  \/ \E c \in {"c1", "c2"} : SendTouch(c, TRUE)
  \/ \E c \in {"c1", "c2"} : SendPopulate(c, TRUE)
  \/ \E t \in {WindowMs - 1, WindowMs} : NoSendInFlight /\ Tick(t)

SpecRate == InitOnline /\ [][NextRate]_vars

\* ---- delivery and replies: c1 sends, c3 listens until it leaves X
MaxChatSends == 2

ChatPayloads ==
  [channelId : {"X", "Y"}, content : {"hi"}, type : {None},
   replyTo : {0, 1}, tempId : {"t1", "t2"}]

NextChat ==
  \/ \E data \in ChatPayloads :
       Sends < MaxChatSends /\ SendMessage("c1", data)
  \/ \E dbOk \in BOOLEAN : SendAccess("c1", dbOk)
  \/ \E dbOk \in BOOLEAN : SendReply("c1", dbOk)
  \/ \E dbOk \in BOOLEAN : SendSave("c1", dbOk)
  \/ \E dbOk \in BOOLEAN : SendTouch("c1", dbOk)
  \/ \E dbOk \in BOOLEAN : SendPopulate("c1", dbOk)
  \/ LeaveChannel("c3", "X")
  \/ \E id \in 1..MaxChatSends : DeleteMessage("u1", id)
  \/ DeleteSave("u1", TRUE)

SpecChat == InitOnline /\ [][NextChat]_vars

\* ---- editing: u1 and u2 send to X, then edit and delete around the 24 hours
MaxEditSends == 1

EditPayloads ==
  [channelId : {"X"}, content : {"hi"}, type : {None, "file"},
   replyTo : {0}, tempId : {None}]

NextEdit ==
  \/ \E c \in {"c1", "c3"}, data \in EditPayloads :
       /\ NoSendInFlight
       /\ Sends < MaxEditSends
       /\ SendMessage(c, data)
  \/ \E c \in {"c1", "c3"} : SendAccess(c, TRUE)
  \/ \E c \in {"c1", "c3"} : SendSave(c, TRUE)
  \/ \E c \in {"c1", "c3"} : SendTouch(c, TRUE)
  \/ \E c \in {"c1", "c3"} : SendPopulate(c, TRUE)
  \/ \E u \in {"u1", "u2"}, id \in 1..MaxEditSends : EditMessage(u, id, "yo")
  \/ \E u \in {"u1", "u2"}, dbOk \in BOOLEAN : EditSave(u, dbOk)
  \/ \E id \in 1..MaxEditSends : DeleteMessage("u1", id)
  \/ DeleteSave("u1", TRUE)
  \/ \E t \in {DayMs - 1, DayMs, DayMs + 1} : NoSendInFlight /\ Tick(t)

SpecEdit == InitOnline /\ [][NextEdit]_vars

\* ------------------------------------------------------------------ delete
\* ---- the author, a member, the two admins and a user of the other company
\* ---- delete the messages of X
MaxDeleteSends == 1

NextDelete ==
  \/ \E c \in {"c1", "c3"}, data \in EditPayloads :
       /\ NoSendInFlight
       /\ Sends < MaxDeleteSends
       /\ SendMessage(c, data)
  \/ \E c \in {"c1", "c3"} : SendAccess(c, TRUE)
  \/ \E c \in {"c1", "c3"} : SendSave(c, TRUE)
  \/ \E c \in {"c1", "c3"} : SendTouch(c, TRUE)
  \/ \E c \in {"c1", "c3"} : SendPopulate(c, TRUE)
  \/ \E u \in Users, id \in 1..(MaxDeleteSends + 1) : DeleteMessage(u, id)
  \/ \E u \in Users, dbOk \in BOOLEAN : DeleteSave(u, dbOk)
  \/ \E t \in {DayMs} : NoSendInFlight /\ Tick(t)

SpecDelete == InitOnline /\ [][NextDelete]_vars

\* ------------------------------------------------------------------ reads
\* ---- messages of X are sent, deleted by their author and read
MaxReadSends == 2

NextRead ==
  \/ \E c \in {"c1"}, data \in EditPayloads :
       /\ NoSendInFlight
       /\ Sends < MaxReadSends
       /\ SendMessage(c, data)
  \/ SendAccess("c1", TRUE)
  \/ SendSave("c1", TRUE)
  \/ SendTouch("c1", TRUE)
  \/ SendPopulate("c1", TRUE)
  \/ \E id \in 1..MaxReadSends : DeleteMessage("u1", id)
  \/ DeleteSave("u1", TRUE)
  \/ \E u \in {"u2", "u3"}, ch \in {"X", "Z"} : GetMessages(u, ch)
  \/ \E u \in {"u2", "u3"} : GetMessagesFind(u)
  \/ \E u \in {"u2", "u3"} : GetChannels(u)

SpecRead == InitOnline /\ [][NextRead]_vars

\* ------------------------------------------------------------------ limiter
\* ---- the join window of u1 is filled from both of its sessions; the other
\* ---- keys receive a few calls
MaxOtherCalls == 1

NextLimiter ==
  \/ \E c \in {"c1", "c2"} : LimiterCall(c, "join")
  \/ \E k \in {<<"c1", "typing">>, <<"c3", "join">>} :
       /\ Len(limits[<<ConnUser(k[1]), k[2]>>]) < MaxOtherCalls
       /\ LimiterCall(k[1], k[2])
  \/ \E t \in {WindowMs - 1, WindowMs} : Tick(t)

SpecLimiter == Init /\ [][NextLimiter]_vars

\* ---- the create window of u1 is filled
NextCreateLimit ==
  \/ \E c \in {"c1", "c2"} : LimiterCall(c, "create")
  \/ \E k \in {<<"c1", "join">>, <<"c3", "create">>} :
       /\ Len(limits[<<ConnUser(k[1]), k[2]>>]) < MaxOtherCalls
       /\ LimiterCall(k[1], k[2])
  \/ \E t \in {WindowMs - 1, WindowMs, WindowMs + 1} : Tick(t)

SpecCreateLimit == Init /\ [][NextCreateLimit]_vars

\* ---- sweeps run between the calls of the create key of u1 and of two
\* ---- other keys
NextSweep ==
  \/ \E c \in {"c1", "c2"} : LimiterCall(c, "create")
  \/ \E k \in {<<"c1", "join">>, <<"c3", "create">>} :
       /\ Len(unswept[<<ConnUser(k[1]), k[2]>>]) < MaxOtherCalls
       /\ LimiterCall(k[1], k[2])
  \/ Cleanup
  \/ \E t \in {WindowMs - 1, WindowMs, SweepMs, SweepMs + WindowMs - 1} : Tick(t)

SpecSweep == Init /\ [][NextSweep]_vars

\* ------------------------------------------------------------------ errors
\* ---- events that fail: malformed payloads, a full join window, channels of
\* ---- the other company, failing database operations
MaxErrorSends == 1

ErrorPayloads ==
  [channelId : {"X", "Z", "bad"}, content : {"hi"}, type : {None},
   replyTo : {0}, tempId : {None}]

NextErrors ==
  \/ \E data \in {"Z", "bad"} : JoinChannel("c1", data)
  \/ \E dbOk \in BOOLEAN : JoinAccess("c1", dbOk)
  \/ LeaveChannel("c1", "bad")
  \/ StatusChange("c2", "offline")
  \/ \E data \in ErrorPayloads :
       Sends < MaxErrorSends /\ SendMessage("c3", data)
  \/ \E dbOk \in BOOLEAN : SendAccess("c3", dbOk)
  \/ \E dbOk \in BOOLEAN : SendSave("c3", dbOk)
  \/ \E dbOk \in BOOLEAN : SendTouch("c3", dbOk)
  \/ \E dbOk \in BOOLEAN : SendPopulate("c3", dbOk)

SpecErrors == InitOnline /\ [][NextErrors]_vars

\* ------------------------------------------------------------------ signals
\* ---- typing and read signals next to joins, leaves and status changes that fail
MaxSignals == 2

NextSignals ==
  \/ \E data \in {"X", "Z", "bad"} :
       /\ Len(limits[<<"u1", "typing">>]) < MaxSignals
       /\ TypingStart("c1", data)
  \/ \E data \in {"X", "Z", "bad"} : TypingStop("c1", data)
  \/ \E data \in {"X", "Z", "bad"} : MarkAsRead("c1", data)
  \/ \E dbOk \in BOOLEAN : SignalAccess("c1", dbOk)
  \/ \E data \in {"Z", "bad"} :
       /\ Len(limits[<<"u1", "join">>]) < MaxSignals
       /\ JoinChannel("c1", data)
  \/ \E dbOk \in BOOLEAN : JoinAccess("c1", dbOk)
  \/ LeaveChannel("c1", "bad")
  \/ LeaveChannel("c3", "X")
  \/ StatusChange("c2", "offline")

SpecSignals == InitOnline /\ [][NextSignals]_vars

\* ------------------------------------------------------------------ tenancy
\* ---- socket and HTTP sends to channels of the own and of the other company,
\* ---- while u1 leaves and rejoins Y
MaxTenancySends == 1

TenancyPayloads ==
  [channelId : {"Y", "Z"}, content : {"hi"}, type : {None},
   replyTo : {0, 1}, tempId : {None}]

NextTenancy ==
  \/ \E data \in TenancyPayloads :
       Sends < MaxTenancySends /\ SendMessage("c1", data)
  \/ \E dbOk \in BOOLEAN : SendAccess("c1", dbOk)
  \/ SendReply("c1", TRUE)
  \/ SendSave("c1", TRUE)
  \/ SendTouch("c1", TRUE)
  \/ SendPopulate("c1", TRUE)
  \/ \E u \in {"u2", "u3"}, data \in TenancyPayloads :
       Len(messages) < MaxTenancySends /\ HttpSendMessage(u, data)
  \/ \E u \in {"u2", "u3"}, dbOk \in BOOLEAN : HttpSendAccess(u, dbOk)
  \/ \E u \in {"u2", "u3"} : HttpSendReply(u, TRUE)
  \/ \E u \in {"u2", "u3"}, dbOk \in BOOLEAN : HttpSendSave(u, dbOk)
  \/ \E u \in {"u2", "u3"}, dbOk \in BOOLEAN : HttpSendTouch(u, dbOk)
  \/ HttpLeaveChannel("u1", "Y")
  \/ HttpJoinChannel("u1", "Y")

SpecTenancy == InitOnline /\ [][NextTenancy]_vars

\* ------------------------------------------------------------------ isolation
\* ---- c1 of company T1 names channel Z of company T2 in every event it can
\* ---- send, while c4 of T2 connects and sits in the room of Z and c3 of T1
\* ---- disconnects
IsolationPayload ==
  [channelId |-> "Z", content |-> "hi", type |-> None, replyTo |-> 0,
   tempId |-> None]

NextIsolation ==
  \/ Handshake("c4")
  \/ SetupUpdate("c4")
  \/ SetupAutoJoin("c4")
  \/ /\ Len(limits[<<"u1", "join">>]) < MaxSignals
     /\ JoinChannel("c1", "Z")
  \/ \E dbOk \in BOOLEAN : JoinAccess("c1", dbOk)
  \/ LeaveChannel("c1", "Z")
  \/ /\ Sends < MaxErrorSends
     /\ SendMessage("c1", IsolationPayload)
  \/ SendAccess("c1", TRUE)
  \/ /\ Len(limits[<<"u1", "typing">>]) < MaxSignals
     /\ TypingStart("c1", "Z")
  \/ TypingStop("c1", "Z")
  \/ MarkAsRead("c1", "Z")
  \/ SignalAccess("c1", TRUE)
  \/ StatusChange("c1", "away")
  \/ StatusUpdate("c1")
  \/ TransportClose("c3")
  \/ DisconnectPull("c3")
  \/ DisconnectRead("c3")
  \/ DisconnectOffline("c3")

SpecIsolation == InitOnline /\ [][NextIsolation]_vars

\* ------------------------------------------------------------------ revocation
\* ---- u2 leaves X over HTTP while its session c3 sits in the room of X and
\* ---- c1 sends messages and signals to X
NextRevoke ==
  \/ HttpLeaveChannel("u2", "X")
  \/ HttpJoinChannel("u2", "X")
  \/ /\ Sends < MaxErrorSends
     /\ SendMessage("c1", RatePayload)
  \/ SendAccess("c1", TRUE)
  \/ SendSave("c1", TRUE)
  \/ SendTouch("c1", TRUE)
  \/ SendPopulate("c1", TRUE)
  \/ /\ Len(limits[<<"u1", "typing">>]) < MaxSignals
     /\ TypingStart("c1", "X")
  \/ MarkAsRead("c1", "X")
  \/ SignalAccess("c1", TRUE)

SpecRevoke == InitOnline /\ [][NextRevoke]_vars

\* ------------------------------------------------------------------ typing
\* ---- c1 sends typing_start until its window is full and after it has passed
NextTyping ==
  \/ \E data \in {"X", "Z", "bad"} : TypingStart("c1", data)
  \/ \E dbOk \in BOOLEAN : SignalAccess("c1", dbOk)
  \/ LeaveChannel("c3", "X")
  \/ Tick(WindowMs)

SpecTyping == InitOnline /\ [][NextTyping]_vars

\* ------------------------------------------------------------------ status
\* ---- sessions of both companies change their status; c4 connects meanwhile
NextStatus ==
  \/ Handshake("c4")
  \/ SetupUpdate("c4")
  \/ SetupAutoJoin("c4")
  \/ \E c \in {"c1", "c4"}, status \in Statuses : StatusChange(c, status)
  \/ \E c \in {"c1", "c4"} : StatusUpdate(c)
  \/ \E c \in {"c1", "c4"} : StatusUpdateFails(c)
  \/ LeaveChannel("c2", "X")

SpecStatus == InitOnline /\ [][NextStatus]_vars

\* ------------------------------------------------------------------ handshake
NextHandshake ==
  \/ \E c \in PresenceConns, cred \in Credentials : HandshakeReject(c, cred)
  \/ \E c \in PresenceConns :
       \/ Handshake(c)
       \/ SetupUpdate(c)
       \/ SetupUpdateFails(c)
       \/ SetupAutoJoin(c)
       \/ SetupAutoJoinFails(c)
       \/ TransportClose(c)
       \/ StatusChange(c, "away")
       \/ StatusUpdate(c)

SpecHandshake == Init /\ [][NextHandshake]_vars

\* ------------------------------------------------------------------ channels
\* ---- channel creation and HTTP membership
MaxCreated == 2

CreateInputs ==
  {<<"direct", {"u2"}>>, <<"direct", {"u1"}>>, <<"direct", {"U1"}>>,
   <<"direct", {"U2"}>>, <<"direct", {"u3"}>>, <<"direct", {"zz"}>>,
   <<"group", {"u2"}>>}

Created == Cardinality(DOMAIN channels) - Cardinality(DOMAIN InitChannels)

NextChannels ==
  \/ \E u \in {"u1", "u2"}, in \in CreateInputs :
       /\ Created < MaxCreated
       /\ \A v \in Users : cjob[v].stage = "none"
       /\ CreateChannel(u, in[1], in[2])
  \/ \E u \in {"u1", "u2"} : CreateExisting(u)
  \/ \E u \in {"u1", "u2"}, dbOk \in BOOLEAN : CreateSave(u, dbOk)
  \/ \E u \in {"u1", "u2"}, ch \in DOMAIN channels : HttpJoinChannel(u, ch)
  \/ \E u \in {"u1", "u2"}, ch \in DOMAIN channels : HttpLeaveChannel(u, ch)

SpecChannels == Init /\ [][NextChannels]_vars

\* ---- two users of one company ask for channels at the same time: a second
\* ---- request may arrive while the first is between its lookup and its save
NextCreateRace ==
  \/ \E u \in {"u1", "u2"}, in \in CreateInputs :
       /\ Created < MaxCreated
       /\ CreateChannel(u, in[1], in[2])
  \/ \E u \in {"u1", "u2"} : CreateExisting(u)
  \/ \E u \in {"u1", "u2"}, dbOk \in BOOLEAN : CreateSave(u, dbOk)

SpecCreateRace == Init /\ [][NextCreateRace]_vars

\* ------------------------------------------------------------------ presence claims
ConnsOf(u) == {c \in Conns : ConnUser(c) = u}

\* no handler of a session of u is between two awaits
Quiescent(u) ==
  \A c \in ConnsOf(u) : /\ pc[c] \in {"idle", "connected"}
                        /\ dpc[c] \in {"none", "done"}
                        /\ sjob[c] = None

LiveConns(u) == {c \in ConnsOf(u) : open[c]}

\* C1: whenever no handler of a principal's sessions is executing and the
\* principal has no open session, its chatStatus is offline.
C1_OfflineWhenNoConnection ==
  \A u \in Users :
    (Quiescent(u) /\ LiveConns(u) = {}) => chatStatus[u] = "offline"

\* C2: a disconnect of one session processed concurrently with the setup of
\* another session of the same principal ends with the new session recorded,
\* the status not offline, and no offline broadcast while that session is live.
C2_NoOfflineWhileConnected ==
  \A u \in Users :
    /\ (Quiescent(u) /\ LiveConns(u) \cap socketIds[u] # {})
         => chatStatus[u] # "offline"
    /\ \A e \in outbox :
         (e.ev = "user_status_change" /\ e.userId = u /\ e.arg = "offline")
           => LiveConns(u) \cap socketIds[u] = {}

\* C3: a completed disconnect handler has removed its session from the
\* principal's socketIds, and a handler broadcasts offline only when that
\* removal left the set empty: when other sessions remained, nothing is
\* broadcast.
C3_DisconnectEffect ==
  \A c \in Conns :
    /\ dpc[c] = "done" => c \notin socketIds[ConnUser(c)]
    /\ discCast[c] => pullLeft[c] = {}

\* ------------------------------------------------------------------ room claims
JoinErrors == {"Too many join requests. Please slow down.",
               "Invalid channel join data", "Access denied to channel"}

RoomsWithinMembership ==
  \A c \in Conns :
    rooms[c] \subseteq {CompanyRoom(Company(ConnUser(c)))} \cup joinOk[c]

\* C4: the rooms of a session are its tenant room and channels of which its
\* principal was, when the room was joined, a participant (non-archived, own
\* tenant); a join_channel answered with a rate-limit, payload or access error
\* leaves every room set unchanged.
C4_RoomMembership ==
  /\ []RoomsWithinMembership
  /\ [][(\E e \in outbox' : e.ev = "error" /\ e.arg \in JoinErrors)
          => rooms' = rooms]_vars

\* C4 happens: the twenty-first join_channel of a minute is refused while the
\* session sits in a channel room it joined
C4_Witness ==
  /\ \E e \in outbox : e.arg = "Too many join requests. Please slow down."
  /\ rooms["c1"] \cap {"X", "Y"} # {}

\* C5: a leave_channel for a room the session is not in notifies nobody: every
\* user_left_channel delivered names a room its sender was in before the step.
C5_LeaveIdempotent ==
  [][\A e \in outbox' :
       e.ev = "user_left_channel" => e.channelId \in rooms[e.from]]_vars

\* ------------------------------------------------------------------ access claims
\* the access rule in the words of the specification, over the document the
\* call found
MayAccess(call) ==
  /\ call.dbOk
  /\ \E doc \in call.docs :
       /\ ~doc.isArchived
       /\ doc.companyId = Company(call.userId)
       /\ call.userId \in doc.participants
       /\ (doc.allowedRoles = {} \/ Role(call.userId) \in doc.allowedRoles)

\* C10: checkChannelAccess returns true exactly when the channel exists, is not
\* archived, is of the principal's tenant, lists the principal and has an empty
\* allow-list or one holding the principal's role; false when the lookup
\* fails; and a call changes no channel, message, presence or room.
C10_AccessGuard ==
  /\ [](\A call \in accessLog : call.result <=> MayAccess(call))
  /\ [][accessLog' # accessLog =>
          UNCHANGED <<channels, messages, chatStatus, socketIds, rooms>>]_vars

\* C10 happens: access granted through a declared allow-list
C10_Witness ==
  \E call \in accessLog :
    /\ call.result
    /\ \E doc \in call.docs : doc.allowedRoles # {}

\* ------------------------------------------------------------------ rate claims
\* send_message events of u that passed the limiter in the trailing window
PassedInWindow(u) ==
  Cardinality({i \in DOMAIN passed[u] : passed[u][i] > now - WindowMs})

RateLimited(e) == e.ev = "error" /\ e.arg = "Too many messages. Please slow down."

\* C6: in any trailing 60 seconds at most 60 send_message events of a principal
\* pass the limiter; one is refused only when 60 of the principal's events
\* passed in the trailing 60 seconds, and the refused event persists no
\* message, starts no handler and fans out no new_message.
C6_SendRateLimit ==
  /\ [](\A u \in Users : PassedInWindow(u) <= LimitMessage)
  /\ [][\A e \in outbox' :
          RateLimited(e) =>
            /\ PassedInWindow(e.userId) >= LimitMessage
            /\ messages' = messages
            /\ channels' = channels
            /\ mjob' = mjob
            /\ \A f \in outbox' : f.ev # "new_message"]_vars

\* C6 happens: sixty messages of u1 persisted within the minute and the next
\* send_message answered with the rate-limit error
C6_Witness ==
  /\ now < WindowMs
  /\ Len(messages) = LimitMessage
  /\ \E e \in outbox : RateLimited(e) /\ e.userId = "u1"

\* ------------------------------------------------------------------ delivery claims
\* u is a participant of the non-archived channel ch of u's tenant
ParticipantOf(u, ch) ==
  /\ ch \in DOMAIN channels
  /\ u \in channels[ch].participants
  /\ ~channels[ch].isArchived
  /\ channels[ch].companyId = Company(u)

\* the new_message of e's message is in evs for the session b
Delivered(evs, e, b) ==
  \E f \in evs : /\ f.ev = "new_message" /\ f.to = b /\ f.id = e.id
                 /\ f.arg = e.arg /\ f.userId = ConnUser(e.from)
                 /\ f.channelId = e.channelId

\* C7 as stated: an accepted send_message to X acknowledges the sender with the
\* tempId it supplied and delivers new_message, with the content and senderId,
\* to every live session of every participant of X.
C7_DeliveryToParticipants ==
  [][\A e \in outbox' :
       e.ev = "message_sent" =>
         /\ e.tempId = mjob[e.from].data.tempId
         /\ e.arg = mjob[e.from].data.content
         /\ \A b \in Conns :
              (open[b] /\ ParticipantOf(ConnUser(b), e.channelId))
                => Delivered(outbox', e, b)]_vars

\* C7 amended: an accepted send_message to X acknowledges the sender with the
\* tempId it supplied and delivers new_message, with the content and senderId,
\* to exactly the live sessions that are in room X at the moment of fan-out.
C7_DeliveryToRoom ==
  [][\A e \in outbox' :
       e.ev = "message_sent" =>
         /\ e.tempId = mjob[e.from].data.tempId
         /\ e.arg = mjob[e.from].data.content
         /\ \A b \in Conns :
              (open[b] /\ e.channelId \in rooms[b]) <=> Delivered(outbox', e, b)
         /\ \A f \in outbox' : f.ev = "new_message" => Delivered(outbox', e, f.to)]_vars

\* C7 happens: c3 of u2 receives the message c1 of u1 sent to X and c1 is
\* acknowledged with its tempId
C7_Witness ==
  /\ \E f \in outbox : /\ f.ev = "new_message" /\ f.to = "c3" /\ f.from = "c1"
                       /\ f.channelId = "X" /\ f.arg = "hi"
  /\ \E e \in outbox : e.ev = "message_sent" /\ e.to = "c1" /\ e.tempId = "t2"

\* ------------------------------------------------------------------ reply claims
\* the replyTo of the handler of c names a non-deleted message of the same
\* channel and tenant
ReplyResolves(c) ==
  \E i \in DOMAIN messages :
    /\ i = mjob[c].data.replyTo
    /\ ~messages[i].isDeleted
    /\ messages[i].channelId = mjob[c].data.channelId
    /\ messages[i].companyId = Company(ConnUser(c))

\* C8: when the replyTo of a send_message does not resolve, at its lookup, to
\* a non-deleted message of the same channel and tenant, the handler ends with
\* an error to the sender only: no message is created, no channel is updated,
\* nothing reaches the room; and every stored reply names a message of its own
\* channel and tenant.
C8_ReplyIntegrity ==
  /\ [](\A i \in DOMAIN messages :
          messages[i].replyTo # 0 =>
            /\ messages[i].replyTo \in DOMAIN messages
            /\ messages[messages[i].replyTo].channelId = messages[i].channelId
            /\ messages[messages[i].replyTo].companyId = messages[i].companyId)
  /\ [][\A c \in Conns :
          (mjob[c].stage = "reply" /\ mjob'[c].stage # "reply" /\ ~ReplyResolves(c))
            => /\ mjob'[c] = NoSend
               /\ messages' = messages
               /\ channels' = channels
               /\ outbox' # {}
               /\ \A e \in outbox' : e.ev = "error" /\ e.to = c]_vars

\* C8 happens: the only stored message is a live message of Y and a reply to
\* it sent to another channel is answered with the error
C8_Witness ==
  /\ Len(messages) = 1
  /\ messages[1].channelId = "Y" /\ ~messages[1].isDeleted
  /\ \E e \in outbox : e.ev = "error" /\ e.arg = "Reply message not found"

\* ------------------------------------------------------------------ edit claims
\* C9 as stated: an edit is accepted exactly when the message is a text
\* message, not deleted, authored by the requester and created strictly less
\* than 24 hours before the edit.
C9_EditStrictlyYounger ==
  \A call \in editLog :
    call.accepted <=>
      \E m \in call.docs : /\ m.type = "text" /\ ~m.isDeleted
                           /\ m.senderId = call.userId
                           /\ call.at - m.createdAt < DayMs

\* C9 amended: an edit is accepted exactly when the message is a text message,
\* not deleted, authored by the requester and created at most 24 hours before
\* the edit; a refused edit leaves every stored message as it was.
C9_EditRule ==
  /\ [](\A call \in editLog :
          call.accepted <=>
            \E m \in call.docs : /\ m.type = "text" /\ ~m.isDeleted
                                 /\ m.senderId = call.userId
                                 /\ call.at - m.createdAt <= DayMs)
  /\ [][(editLog' # editLog /\ \E call \in editLog' : ~call.accepted)
          => messages' = messages /\ hjob' = hjob]_vars

\* C9 happens: an edit of a message exactly 24 hours old is accepted
C9_Witness ==
  \E call \in editLog :
    /\ call.accepted
    /\ \E m \in call.docs : call.at - m.createdAt = DayMs

\* ------------------------------------------------------------------ handshake claims
\* C11: a handshake step that fails establishes no connection: a rejected
\* handshake, a failed presence update and a failed load of the channel rooms
\* all leave the session without registered handlers, in no room, and leave
\* chatStatus and socketIds as they were, with no presence broadcast.
C11_HandshakeAllOrNothing ==
  [][\A c \in Conns :
       (\/ pc'[c] = "rejected" /\ pc[c] # "rejected"
        \/ \E e \in outbox' : e.to = c /\ e.arg = "Connection setup failed"
        \/ /\ pc[c] = "setup_join" /\ pc'[c] = "connected"
           /\ AutoJoinChannels(channels, ConnUser(c)) # {}
           /\ rooms'[c] \cap AutoJoinChannels(channels, ConnUser(c)) = {})
       => /\ pc'[c] # "connected"
          /\ rooms'[c] = {}
          /\ chatStatus' = chatStatus /\ socketIds' = socketIds
          /\ c \notin socketIds'[ConnUser(c)]
          /\ \A e \in outbox' : e.ev # "user_status_change"]_vars

\* ------------------------------------------------------------------ ordering claims
\* a handler of an earlier event of the session c is still between two awaits
EarlierPending(c) ==
  \/ jjob[c] # None
  \/ sjob[c] # None
  \/ mjob[c].stage # "none"
  \/ xjob[c].ev # "none"

\* C12: the events of one session take effect in arrival order: leave_channel,
\* whose handler runs to its end on arrival, takes effect only when no handler
\* of an earlier event of the session is still pending, so that join_channel X
\* followed by leave_channel X ends outside room X.
C12_PerConnectionOrder ==
  [][\A e \in outbox' :
       (e.ev = "left_channel" /\ e.to = e.from) => ~EarlierPending(e.from)]_vars

\* ------------------------------------------------------------------ channel claims
\* C13: every stored direct channel has exactly 2 distinct participants, and
\* no step changes the participants of a stored direct channel.
C13_DirectChannelPair ==
  /\ [](\A ch \in DOMAIN channels :
          channels[ch].type = "direct" => Cardinality(channels[ch].participants) = 2)
  /\ [][\A ch \in DOMAIN channels :
          channels[ch].type = "direct"
            => channels'[ch].participants = channels[ch].participants]_vars

\* ------------------------------------------------------------------ delete claims
\* C14: a delete is accepted exactly when the message is of the requester's
\* company, not yet deleted, and the requester is its author or a
\* company_admin or superadmin; a refused delete starts nothing; a stored
\* message changes only by the save of an accepted delete, which sets
\* isDeleted, deletedBy = the requester and deletedAt, and nothing else.
C14_DeleteRule ==
  /\ [](\A call \in delLog :
          call.accepted <=>
            \E m \in call.docs :
              /\ m.companyId = Company(call.userId)
              /\ ~m.isDeleted
              /\ \/ m.senderId = call.userId
                 \/ Role(call.userId) \in {"company_admin", "superadmin"})
  /\ [][(delLog' # delLog /\ \E call \in delLog' : ~call.accepted)
          => messages' = messages /\ hjob' = hjob]_vars
  /\ [][\A id \in 1..Len(messages) :
          messages'[id] # messages[id]
            => \E u \in Users :
                 /\ hjob[u].op = "delete" /\ hjob[u].id = id
                 /\ Company(u) = messages[id].companyId
                 /\ \/ messages[id].senderId = u
                    \/ Role(u) \in {"company_admin", "superadmin"}
                 /\ messages'[id] = [messages[id] EXCEPT !.isDeleted = TRUE,
                                                         !.deletedBy = u,
                                                         !.deletedAt = hjob[u].at]]_vars

\* C14 happens: a company_admin has deleted a message of another author, and
\* the delete of a superadmin of the other company was refused
C14_Witness ==
  /\ \E id \in 1..Len(messages) :
       /\ messages[id].isDeleted /\ messages[id].deletedBy = "u4"
       /\ messages[id].senderId = "u1"
  /\ \E call \in delLog : call.userId = "u5" /\ call.docs # {} /\ ~call.accepted

\* ------------------------------------------------------------------ read claims
\* C15: no step removes a stored message or changes the stored content of a
\* message it marks deleted; a listing of a channel's messages shows every
\* deleted message of the channel with the tombstone marker as its content,
\* a last-message preview of a deleted message shows the tombstone marker, and
\* no read shows a deleted message with its stored content.
C15_TombstoneAtReads ==
  /\ [][/\ Len(messages') >= Len(messages)
        /\ \A id \in 1..Len(messages) :
             messages'[id].isDeleted # messages[id].isDeleted
               => messages'[id].content = messages[id].content]_vars
  /\ [][readLog' # readLog
          => \A r \in readLog' :
               /\ (r.op = "messages" /\ r.ok)
                    => \A id \in 1..Len(messages') :
                         (/\ messages'[id].channelId = r.channelId
                          /\ messages'[id].isDeleted)
                           => [id |-> id, content |-> Tombstone] \in r.items
               /\ \A pv \in r.previews : \A it \in pv.lastMessage :
                    messages'[it.id].isDeleted => it.content = Tombstone
               /\ \A it \in r.items :
                    messages'[it.id].isDeleted => it.content = Tombstone]_vars

\* ------------------------------------------------------------------ limiter claims
\* the timestamps of a call's key that lie in the trailing window of w ms
InWindow(call, w) ==
  Cardinality({i \in 1..Len(call.before) : call.before[i] > call.at - w})

\* C16: checkLimit of message, typing or join returns true exactly when
\* fewer timestamps of its key than the action's limit lie in the trailing
\* 60 seconds; a true call records now once for its key, a false call
\* records nothing; no call changes another key; the key is the principal
\* and the action, whichever session calls.
C16_LimiterContract ==
  /\ [](\A call \in limLog :
          call.action \in {"message", "typing", "join"}
            => (call.result <=> InWindow(call, WindowMs) < LIMITS(call.action)))
  /\ [][limLog' # limLog
          => \A call \in limLog' :
               LET key == <<call.userId, call.action>>
               IN /\ call.before = limits[key]
                  /\ \A k \in (Users \X Actions) \ {key} : limits'[k] = limits[k]
                  /\ call.result
                       => limits'[key] = Append(WindowFilter(limits[key], call.at),
                                                call.at)
                  /\ ~call.result => limits'[key] = limits[key]]_vars

\* C16 happens: the 21st join of u1 in one window is refused while other
\* keys hold timestamps, and a later join of u1 is allowed after the window
\* has passed
C16_Witness ==
  /\ \E call \in limLog :
       /\ call.userId = "u1" /\ call.action = "join" /\ call.at >= WindowMs
       /\ call.result /\ Len(call.before) = LimitJoin
  /\ limits[<<"u2", "join">>] # <<>>
  /\ limits[<<"u1", "typing">>] # <<>>

\* C17 as stated: a create call is allowed exactly when fewer than 5
\* timestamps of its key lie in the trailing hour.
C17_CreateHourWindow ==
  \A call \in limLog :
    call.action = "create"
      => (call.result <=> InWindow(call, HourMs) < LimitCreate)

\* C17 amended: a create call is allowed exactly when fewer than 5
\* timestamps of its key lie in the trailing 60 seconds, the window of every
\* other action; whatever is older than that does not count.
C17_CreateMinuteWindow ==
  /\ [](\A call \in limLog :
          call.action = "create"
            => (call.result <=> InWindow(call, WindowMs) < LimitCreate))
  /\ [][limLog' # limLog
          => \A call \in limLog' :
               (call.action = "create" /\ call.result)
                 => Len(limits'[<<call.userId, "create">>])
                      = InWindow(call, WindowMs) + 1]_vars

\* C17 happens: after 5 create calls at time 0 a 6th made just over 60
\* seconds later is allowed
C17_Witness ==
  \E call \in limLog :
    /\ call.action = "create" /\ call.result
    /\ call.at > WindowMs /\ call.at < HourMs
    /\ InWindow(call, HourMs) = LimitCreate
    /\ call.before[1] = 0

\* ------------------------------------------------------------------ error claims
\* C18: an error event goes to the session whose event caused it and to no
\* other session; a step that emits an error closes no session, leaves every
\* session connected and leaves every room set as it was.
C18_ErrorIsolation ==
  /\ [](\A e \in outbox : e.ev = "error" => e.to = e.from)
  /\ [][(\E e \in outbox' : e.ev = "error")
          => /\ open' = open /\ pc' = pc /\ rooms' = rooms
             /\ \A e \in outbox' : e.ev = "error"
             /\ Cardinality(outbox') = 1]_vars

\* C18 happens: the 21st join_channel of c1 is refused by the limiter while
\* c2 of the same principal and c3 share room X with c1
C18_Witness ==
  /\ \E e \in outbox :
       /\ e.ev = "error" /\ e.to = "c1"
       /\ e.arg = "Too many join requests. Please slow down."
  /\ open["c2"] /\ open["c3"]
  /\ "X" \in (rooms["c1"] \cap rooms["c2"]) \cap rooms["c3"]

\* C19: when the access check of a join_channel or of a mark_as_read of an
\* open session returns for a channel the principal may not access, the
\* session is sent an error event; only typing_start and typing_stop end
\* without one.
C19_ErrorsReported ==
  [][\A c \in Conns :
       (/\ open[c]
        /\ \/ /\ jjob[c] # None /\ jjob'[c] = None
              /\ ~CheckChannelAccess(channels, ConnUser(c), jjob[c])
           \/ /\ xjob[c].ev = "mark_as_read" /\ xjob'[c].ev = "none"
              /\ ~CheckChannelAccess(channels, ConnUser(c), xjob[c].channelId))
       => \E e \in outbox' : e.ev = "error" /\ e.to = c]_vars

\* ------------------------------------------------------------------ connect claims
\* C20: the presence update of a connecting session adds the session to the
\* principal's socketIds; it sets chatStatus to online when the principal has
\* no other live session registered, and leaves chatStatus as it is when the
\* principal has one.
C20_ConnectKeepsStatus ==
  [][\A c \in Conns :
       (pc[c] = "setup_update" /\ pc'[c] = "setup_join")
         => LET u == ConnUser(c)
                others == (socketIds[u] \cap LiveConns(u)) \ {c}
            IN /\ c \in socketIds'[u]
               /\ others = {} => chatStatus'[u] = "online"
               /\ others # {} => chatStatus'[u] = chatStatus[u]]_vars

\* ------------------------------------------------------------------ status claims
\* C21: a status_change with online, away or busy whose update succeeds sets
\* the chatStatus of the principal to that value, changes no socketIds and no
\* room set, and sends user_status_change with that value to exactly the
\* other open sessions of the principal's company room; a status_change with
\* any other value sends the caller an error and changes neither chatStatus,
\* socketIds nor rooms, starts no update and broadcasts nothing.
C21_StatusChange ==
  /\ [](\A c \in Conns : sjob[c] \in {None, "online", "away", "busy"})
  /\ [][\A c \in Conns :
          (/\ sjob[c] # None /\ sjob'[c] = None
           /\ ~\E e \in outbox' : e.ev = "error")
            => /\ chatStatus' = [chatStatus EXCEPT ![ConnUser(c)] = sjob[c]]
               /\ socketIds' = socketIds /\ rooms' = rooms
               /\ \A e \in outbox' :
                    /\ e.ev = "user_status_change" /\ e.arg = sjob[c]
                    /\ e.userId = ConnUser(c) /\ e.to # c
                    /\ Company(ConnUser(e.to)) = Company(ConnUser(c))
               /\ {e.to : e \in outbox'}
                    = {d \in Conns : /\ open[d] /\ d # c
                                     /\ CompanyRoom(Company(ConnUser(c))) \in rooms[d]}]_vars
  /\ [][(\E e \in outbox' : e.ev = "error" /\ e.arg = "Invalid status")
          => /\ chatStatus' = chatStatus /\ socketIds' = socketIds
             /\ rooms' = rooms /\ sjob' = sjob
             /\ \A e \in outbox' : e.ev = "error" /\ e.to = e.from]_vars

\* C21 happens: u1 has set itself busy through c1 while c4 of the other
\* company is connected; c2 and c3 were told and c4 was not
C21_Witness ==
  /\ chatStatus["u1"] = "busy"
  /\ open["c4"] /\ pc["c4"] = "connected"
  /\ {e.to : e \in {x \in outbox : x.ev = "user_status_change" /\ x.arg = "busy"}}
       = {"c2", "c3"}

\* ------------------------------------------------------------------ typing claims
\* C22: typing_start never sends an error, and user_typing never reaches the
\* sending session; a typing_start refused by the limiter, or accepted by it
\* with a malformed payload, starts no access check and sends nothing; one
\* whose access check fails sends nothing; one whose access check succeeds
\* sends user_typing to exactly the other open sessions of the channel room.
C22_SilentTyping ==
  /\ [](\A e \in outbox : /\ e.ev # "error"
                            /\ e.ev = "user_typing" => e.to # e.from)
  /\ [][limLog' # limLog
          => /\ outbox' = {}
             /\ \A call \in limLog' : \A c \in Conns :
                  xjob'[c] # xjob[c]
                    => /\ call.result
                       /\ ValidChannelPayload(xjob'[c].channelId)]_vars
  /\ [][\A c \in Conns :
          (xjob[c].ev = "typing_start" /\ xjob'[c].ev = "none")
            => /\ ~CheckChannelAccess(channels, ConnUser(c), xjob[c].channelId)
                    => outbox' = {}
               /\ outbox' # {}
                    => {e.to : e \in outbox'}
                         = {d \in Conns : /\ open[d] /\ d # c
                                          /\ xjob[c].channelId \in rooms[d]}
               /\ \A e \in outbox' : /\ e.ev = "user_typing"
                                       /\ e.channelId = xjob[c].channelId]_vars

\* C22 happens: the 31st typing_start of u1 in one minute was refused, while
\* c2 and c3 are in room X with c1
C22_Witness ==
  /\ \E call \in limLog :
       /\ call.action = "typing" /\ ~call.result
       /\ Len(call.before) = LimitTyping
  /\ {"c2", "c3"} \subseteq {d \in Conns : open[d] /\ "X" \in rooms[d]}

\* C23: a rejected handshake names its cause: no token, a token that fails
\* verification, an expired token, an inactive account and an account without
\* company are each reported with their own message.
C23_DistinctRejections ==
  \A e \in outbox :
    e.ev = "connect_error"
      => /\ e.cause = "missing" => e.arg = "Authentication token required"
         /\ e.cause = "malformed" => e.arg = "Invalid authentication token"
         /\ e.cause = "expired" => e.arg = "Authentication token expired"
         /\ e.cause = "inactive" => e.arg = "User account is inactive"
         /\ e.cause = "no_company" => e.arg = "User must belong to a company"

\* ------------------------------------------------------------------ tenancy claims
\* a send of principal u has just passed its access check
PassedAccess(job, jobAfter) ==
  job.stage = "access" /\ jobAfter.stage \in {"reply", "save"}

\* a send reaches its reply lookup only from its access check, and its save
\* only from its access check or its reply lookup
InOrder(job, jobAfter) ==
  /\ (jobAfter.stage = "reply" /\ job.stage # "reply") => job.stage = "access"
  /\ (jobAfter.stage = "save" /\ job.stage # "save")
       => job.stage \in {"access", "reply"}
  /\ jobAfter.stage \in {"reply", "save"} => jobAfter.data = job.data

\* C24: every stored message carries the company of its channel, which is
\* the company of its sender; a send passes its access check only while the
\* sender is a participant of the non-archived channel of the sender's
\* company; a message is stored only by a send that has passed its access
\* check, with the sender and the channel of that send.
C24_MessageTenancy ==
  /\ [](\A id \in 1..Len(messages) :
          /\ messages[id].channelId \in DOMAIN channels
          /\ messages[id].companyId = channels[messages[id].channelId].companyId
          /\ messages[id].companyId = Company(messages[id].senderId))
  /\ [][/\ \A c \in Conns :
             /\ InOrder(mjob[c], mjob'[c])
             /\ PassedAccess(mjob[c], mjob'[c])
                  => IsParticipant(channels, ConnUser(c), mjob[c].data.channelId)
        /\ \A u \in Users :
             /\ InOrder(pjob[u], pjob'[u])
             /\ PassedAccess(pjob[u], pjob'[u])
                  => IsParticipant(channels, u, pjob[u].data.channelId)]_vars
  /\ [][Len(messages') > Len(messages)
          => /\ Len(messages') = Len(messages) + 1
             /\ \/ \E c \in Conns :
                     /\ mjob[c].stage = "save" /\ mjob'[c].stage = "touch"
                     /\ messages'[Len(messages')].senderId = ConnUser(c)
                     /\ messages'[Len(messages')].channelId = mjob[c].data.channelId
                \/ \E u \in Users :
                     /\ pjob[u].stage = "save" /\ pjob'[u].stage = "touch"
                     /\ messages'[Len(messages')].senderId = u
                     /\ messages'[Len(messages')].channelId = pjob[u].data.channelId]_vars

\* C24 happens: a socket send of u1 and an HTTP send of u2 are stored in Y,
\* and u1 is no longer a participant of Y
C24_Witness ==
  /\ \E id \in 1..Len(messages) :
       messages[id].senderId = "u1" /\ messages[id].channelId = "Y"
  /\ \E id \in 1..Len(messages) :
       messages[id].senderId = "u2" /\ messages[id].channelId = "Y"
  /\ "u1" \notin channels["Y"].participants

\* ------------------------------------------------------------------ isolation claims
\* C25: every event is delivered to sessions of the company of the session
\* that caused it, and to no session of another company.
C25_TenantIsolation ==
  \A e \in outbox : Company(ConnUser(e.to)) = Company(ConnUser(e.from))

\* ------------------------------------------------------------------ auto-join claims
\* C26: every channel room the connection setup places a session in is a
\* channel its principal may access at that moment by checkChannelAccess, the
\* role allow-list included.
C26_AutoJoinGuarded ==
  [][\A c \in Conns :
       (pc[c] = "setup_join" /\ pc'[c] = "connected")
         => \A ch \in rooms'[c] \ rooms[c] :
              CheckChannelAccess(channels, ConnUser(c), ch)]_vars

\* ------------------------------------------------------------------ send claims
\* C27: a send_message of an open session ends either with message_sent to
\* the sender, its message stored and new_message sent to the room, or with
\* an error to the sender and no message of this send stored.
C27_SendAtomic ==
  [][\A c \in Conns :
       (open[c] /\ mjob[c].stage # "none" /\ mjob'[c].stage = "none")
         => \/ /\ \E e \in outbox' : e.ev = "message_sent" /\ e.to = c
               /\ mjob[c].id \in 1..Len(messages)
               /\ \A d \in IoToRoom(rooms, mjob[c].data.channelId) :
                    \E e \in outbox' : e.ev = "new_message" /\ e.to = d
            \/ /\ \E e \in outbox' : e.ev = "error" /\ e.to = c
               /\ mjob[c].id = 0
               /\ messages' = messages]_vars

\* ------------------------------------------------------------------ revocation claims
\* C28: new_message, user_typing and messages_read of a channel are delivered
\* only to sessions whose principal is, at that moment, a participant of the
\* channel and the channel is not archived.
C28_RevokedStopsDelivery ==
  \A e \in outbox :
    e.ev \in {"new_message", "user_typing", "messages_read"}
      => IsParticipant(channels, ConnUser(e.to), e.channelId)

\* C29: within one company there is at most one direct channel for any pair
\* of users, in every reachable state, concurrent create requests included.
C29_DirectUnique ==
  \A ch \in DOMAIN channels : \A other \in DOMAIN channels :
    (/\ ch # other
     /\ channels[ch].type = "direct" /\ channels[other].type = "direct"
     /\ channels[ch].companyId = channels[other].companyId)
      => channels[ch].participants # channels[other].participants

\* ------------------------------------------------------------------ sweep claims
\* C30: the sweep is invisible to checkLimit. In every reachable state, for
\* every key, a call made now returns the same result on the swept map as on
\* the map that was never swept, and both maps hold the same timestamps of
\* the trailing 60 seconds. A sweep deletes exactly the keys whose most
\* recent timestamp is not of the last 5 minutes (timestamp <= now - 300000),
\* and from every other key it drops exactly the timestamps that are not of
\* the last 5 minutes, keeping the rest in order.
C30_SweepTransparent ==
  /\ [](\A k \in Users \X Actions :
          /\ CheckLimit(limits, k[1], k[2], now) = CheckLimit(unswept, k[1], k[2], now)
          /\ WindowFilter(limits[k], now) = WindowFilter(unswept[k], now))
  /\ [][(unswept' = unswept /\ limits' # limits)
          => \A k \in Users \X Actions :
               LET old == limits[k]
                   kept == {i \in 1..Len(old) : old[i] > now - SweepMs}
               IN /\ (limits'[k] = <<>> /\ old # <<>>)
                       <=> (old # <<>> /\ old[Len(old)] <= now - SweepMs)
                  /\ Len(limits'[k]) = Cardinality(kept)
                  /\ \A j \in 1..Len(limits'[k]) :
                       limits'[k][j] = old[Len(old) - Len(limits'[k]) + j]]_vars

\* a sweep has deleted a key and has shortened another
C30_Witness ==
  /\ \E k \in Users \X Actions : limits[k] = <<>> /\ unswept[k] # <<>>
  /\ \E k \in Users \X Actions :
       limits[k] # <<>> /\ Len(limits[k]) < Len(unswept[k])

====
